---- MODULE Spec2Model ----
(***************************************************************************)
(* Blacklist report: the record parser (parseCSVData) and the aggregation  *)
(* engine (calculate*Stats) of web-app/src/utils/dataProcessor.ts.         *)
(*                                                                         *)
(* A JavaScript string is a sequence of characters, each character a       *)
(* one-element token ("7", "a", "U+672A" for a CJK code point).  A JS      *)
(* number that stays an integer is an Int; a rate (black / total * 100) is *)
(* the exact fraction <<numerator, denominator>>, so that a division by    *)
(* zero (NaN, Infinity) is a fraction whose denominator is 0.              *)
(***************************************************************************)
EXTENDS Integers, Sequences, FiniteSets, TLC

VARIABLES csvText, records, call, arg, result

\* the state of the App component (data, batchData, theme), of the FileUpload
\* component under it (isBatch, loading, and the uploads started so far with
\* the state of their file reads), the window's reportId parameter, whether
\* the mount effect has run, the browser's localStorage, its clock, the alert
\* shown by the last step and the detail windows opened from the batch view
VARIABLES data, batchData, theme, localStorage, reportId, mounted, isBatch,
          loading, uploads, alert, windows, now

appVars ==
    <<data, batchData, theme, localStorage, reportId, mounted, isBatch,
      loading, uploads, alert, windows, now>>

engineVars == <<csvText, records, call, arg, result>>

vars == <<csvText, records, call, arg, result, data, batchData, theme, localStorage,
          reportId, mounted, isBatch, loading, uploads, alert, windows, now>>

\* null, and a value that is not null
Null == [isNull |-> TRUE, value |-> <<>>]

NonNull(v) == [isNull |-> FALSE, value |-> v]

\* the App before it is mounted, with an empty store and no upload under way
AppIdle ==
    /\ data = Null
    /\ batchData = Null
    /\ theme = <<"dark">>
    /\ localStorage = <<>>
    /\ reportId = Null
    /\ mounted = FALSE
    /\ isBatch = FALSE
    /\ loading = FALSE
    /\ uploads = <<>>
    /\ alert = "none"
    /\ windows = <<>>
    /\ now = 0

(* ------------------------------ bounds --------------------------------- *)

\* longest record sequence handed to the engine
MaxLen == 2

\* most data lines of an uploaded text
MaxLines == 2

(* ------------------------------ strings -------------------------------- *)

\* '未知'
UNKNOWN == <<"U+672A", "U+77E5">>

\* '未触发黑名单部分'
NOT_TRIGGERED == <<"U+672A", "U+89E6", "U+53D1", "U+9ED1", "U+540D", "U+5355", "U+90E8", "U+5206">>

EmptyStr == <<>>

\* s || d on strings: the empty string is falsy
StrOr(s, d) == IF s = EmptyStr THEN d ELSE s

(* ------------------------------ parseInt ------------------------------- *)

NaN == [nan |-> TRUE, val |-> 0]

Num(n) == [nan |-> FALSE, val |-> n]

WhiteSpace == {" ", "\t"}

\* the value of a character as a digit, 99 when it is none
DigitValue(c) ==
    CASE c = "0" -> 0 [] c = "1" -> 1 [] c = "2" -> 2 [] c = "3" -> 3
      [] c = "4" -> 4 [] c = "5" -> 5 [] c = "6" -> 6 [] c = "7" -> 7
      [] c = "8" -> 8 [] c = "9" -> 9
      [] c \in {"a", "A"} -> 10 [] c \in {"b", "B"} -> 11
      [] c \in {"c", "C"} -> 12 [] c \in {"d", "D"} -> 13
      [] c \in {"e", "E"} -> 14 [] c \in {"f", "F"} -> 15
      [] OTHER -> 99

RECURSIVE TrimStart(_)
TrimStart(s) ==
    IF s # <<>> /\ Head(s) \in WhiteSpace THEN TrimStart(Tail(s)) ELSE s

\* the longest prefix of s made of digits of radix R
DigitPrefix(s, R) ==
    LET others == {i \in 1..Len(s) : DigitValue(s[i]) >= R}
    IN  IF others = {} THEN s
        ELSE SubSeq(s, 1, (CHOOSE i \in others : \A j \in others : i <= j) - 1)

RECURSIVE RadixValue(_, _, _)
RadixValue(z, R, acc) ==
    IF z = <<>> THEN acc ELSE RadixValue(Tail(z), R, acc * R + DigitValue(Head(z)))

\* the number Infinity (and -Infinity its opposite): the finite numbers of the
\* model are the integers strictly between the two; a fraction with the
\* denominator Infinity stands for 0, and Infinity is added to 0 only
Infinity == 2147483647

\* a numeral of more significant digits than this is above Number.MAX_VALUE
\* (1.79e308) in radix 10 and 16 alike
MaxFiniteDigits == 309

\* a numeral without its leading zeros
StripZeros(z) ==
    LET others == {i \in 1..Len(z) : z[i] # "0"}
    IN  IF others = {} THEN <<>>
        ELSE SubSeq(z, CHOOSE i \in others : \A j \in others : i <= j, Len(z))

\* parseInt(string) with no radix argument (ECMAScript): leading white space
\* and a sign are skipped, a 0x / 0X prefix switches to radix 16, the longest
\* digit prefix is the value, an empty one is NaN and one too long for a
\* finite number is Infinity.
ParseInt(s) ==
    LET S1 == TrimStart(s)
        sign == IF S1 # <<>> /\ Head(S1) = "-" THEN -1 ELSE 1
        S2 == IF S1 # <<>> /\ Head(S1) \in {"+", "-"} THEN Tail(S1) ELSE S1
        hex == Len(S2) >= 2 /\ S2[1] = "0" /\ S2[2] \in {"x", "X"}
        R == IF hex THEN 16 ELSE 10
        S3 == IF hex THEN SubSeq(S2, 3, Len(S2)) ELSE S2
        Z == DigitPrefix(S3, R)
    IN  IF Z = <<>> THEN NaN
        ELSE IF Len(StripZeros(Z)) > MaxFiniteDigits THEN Num(sign * Infinity)
        ELSE Num(sign * RadixValue(Z, R, 0))

\* n || 0 on numbers: NaN and 0 are falsy
NumOrZero(n) == IF n.nan \/ n.val = 0 THEN 0 ELSE n.val

(* ------------------------------ Papa.parse ----------------------------- *)

Quote == "\""

EmptyLine == <<EmptyStr>>

IsEmptyLine(line) == Len(line) = 1 /\ line[1] = EmptyStr

\* a field that opens a quote and never closes it
BadQuote(f) == f # <<>> /\ Head(f) = Quote /\ (Len(f) = 1 \/ f[Len(f)] # Quote)

\* the value of a field: a quoted field loses its quotes
FieldValue(f) ==
    IF Len(f) >= 2 /\ Head(f) = Quote /\ f[Len(f)] = Quote
    THEN SubSeq(f, 2, Len(f) - 1)
    ELSE f

\* skipEmptyLines: true
RECURSIVE SkipEmptyLines(_)
SkipEmptyLines(lines) ==
    IF lines = <<>> THEN <<>>
    ELSE IF IsEmptyLine(Head(lines))
         THEN SkipEmptyLines(Tail(lines))
         ELSE <<Head(lines)>> \o SkipEmptyLines(Tail(lines))

RECURSIVE FieldCount(_)
FieldCount(lines) ==
    IF lines = <<>> THEN 0 ELSE Len(Head(lines)) + FieldCount(Tail(lines))

\* the row object of one data line: header name -> field, for the fields the
\* line has (a missing field is an absent key, i.e. undefined)
RowObject(header, line) ==
    LET n == IF Len(line) < Len(header) THEN Len(line) ELSE Len(header)
        cols == {header[j] : j \in 1..n}
    IN  [c \in cols |-> FieldValue(line[CHOOSE j \in 1..n : header[j] = c])]

RECURSIVE RowErrors(_, _)
RowErrors(header, lines) ==
    IF lines = <<>> THEN <<>>
    ELSE LET l == Head(lines)
             mismatch == IF Len(l) < Len(header) THEN <<"TooFewFields">>
                         ELSE IF Len(l) > Len(header) THEN <<"TooManyFields">>
                         ELSE <<>>
             quotes == IF \E j \in 1..Len(l) : BadQuote(l[j])
                       THEN <<"MissingQuotes">> ELSE <<>>
         IN  quotes \o mismatch \o RowErrors(header, Tail(lines))

\* Papa.parse(csvText, {header: true, skipEmptyLines: true}): the first
\* non-empty line names the columns, every other non-empty line is one row
\* object; errors lists what the splitter reports (an undetectable delimiter,
\* a row with too few or too many fields, an unterminated quote).
PapaParse(text) ==
    LET all == SkipEmptyLines(text)
        header == IF all = <<>> THEN <<>>
                  ELSE [j \in 1..Len(Head(all)) |-> FieldValue(Head(all)[j])]
        rows == IF all = <<>> THEN <<>> ELSE Tail(all)
        delimiter == IF all # <<>> /\ 100 * FieldCount(all) > 199 * Len(all)
                     THEN <<>> ELSE <<"UndetectableDelimiter">>
    IN  [data |-> [i \in 1..Len(rows) |-> RowObject(header, rows[i])],
         errors |-> delimiter \o RowErrors(header, all)]

(* ------------------------------ parseCSVData --------------------------- *)

\* a column name as a string: the whole name is one token
Col(name) == <<name>>

\* row.<col> || d for a string column
RowStr(row, col, d) == IF Col(col) \in DOMAIN row THEN StrOr(row[Col(col)], d) ELSE d

\* parseInt(row.<col>) || 0 ; parseInt(undefined) is NaN
RowInt(row, col) ==
    NumOrZero(IF Col(col) \in DOMAIN row THEN ParseInt(row[Col(col)]) ELSE NaN)

\* a blank account left blank: row.account || ''
ToRecordBlankAccount(row) ==
    [dt |-> RowStr(row, "dt", EmptyStr),
     account |-> RowStr(row, "account", EmptyStr),
     province |-> RowStr(row, "province", UNKNOWN),
     group |-> RowStr(row, "group", EmptyStr),
     total_outbound_count |-> RowInt(row, "total_outbound_count"),
     black_outbound_count |-> RowInt(row, "black_outbound_count"),
     total_pickup_count |-> RowInt(row, "total_pickup_count"),
     black_pickup_count |-> RowInt(row, "black_pickup_count"),
     total_pay_count |-> RowInt(row, "total_pay_count"),
     black_pay_count |-> RowInt(row, "black_pay_count"),
     total_complain_count |-> RowInt(row, "total_complain_count"),
     black_complain_count |-> RowInt(row, "black_complain_count")]

ToRecord(row) ==
    [dt |-> RowStr(row, "dt", EmptyStr),
     account |-> RowStr(row, "account", UNKNOWN),
     province |-> RowStr(row, "province", UNKNOWN),
     group |-> RowStr(row, "group", EmptyStr),
     total_outbound_count |-> RowInt(row, "total_outbound_count"),
     black_outbound_count |-> RowInt(row, "black_outbound_count"),
     total_pickup_count |-> RowInt(row, "total_pickup_count"),
     black_pickup_count |-> RowInt(row, "black_pickup_count"),
     total_pay_count |-> RowInt(row, "total_pay_count"),
     black_pay_count |-> RowInt(row, "black_pay_count"),
     total_complain_count |-> RowInt(row, "total_complain_count"),
     black_complain_count |-> RowInt(row, "black_complain_count")]

\* the rows the splitter could build are kept although it reported errors
parseCSVDataLenient(text) ==
    LET parsed == PapaParse(text)
    IN  [i \in 1..Len(parsed.data) |-> ToRecord(parsed.data[i])]

\* the records come out last row first
parseCSVDataReversed(text) ==
    LET parsed == PapaParse(text)
    IN  IF Len(parsed.errors) > 0
        THEN <<>>
        ELSE [i \in 1..Len(parsed.data) |->
                ToRecord(parsed.data[Len(parsed.data) + 1 - i])]

\* (result.data is always an array for a string input, so `!result.data` never holds)
parseCSVData(text) ==
    LET parsed == PapaParse(text)
    IN  IF Len(parsed.errors) > 0
        THEN <<>>
        ELSE [i \in 1..Len(parsed.data) |-> ToRecord(parsed.data[i])]

(* ------------------------------ Map ------------------------------------ *)

\* A JS Map is the sequence of its entries in insertion order.
MapHas(map, key) == \E i \in 1..Len(map) : map[i].key = key

\* map.get(key) || d
MapGetOr(map, key, d) ==
    IF MapHas(map, key)
    THEN map[CHOOSE i \in 1..Len(map) : map[i].key = key].value
    ELSE d

\* map.set(key, value): an existing key keeps its place
MapSet(map, key, value) ==
    IF MapHas(map, key)
    THEN [i \in 1..Len(map) |->
            IF map[i].key = key THEN [key |-> key, value |-> value] ELSE map[i]]
    ELSE Append(map, [key |-> key, value |-> value])

(* ------------------------------ rates ---------------------------------- *)

\* operands swapped: (total / black) * 100
PercentSwapped(black, total) == <<total * 100, black>>

\* the factor 100 left out: a fraction of 1 instead of a percentage
PercentNotScaled(black, total) == <<black, total>>

\* (black / total) * 100 as the fraction black * 100 / total
Percent(black, total) == <<black * 100, total>>

ZeroRate == <<0, 1>>

\* the guard on the denominator left out
RateUnguarded(black, total) == Percent(black, total)

\* a rate above 100 cut down to 100
RateClamped(black, total) ==
    IF total > 0
    THEN IF black > total THEN <<100, 1>> ELSE Percent(black, total)
    ELSE ZeroRate

\* total > 0 ? (black / total) * 100 : 0
Rate(black, total) == IF total > 0 THEN Percent(black, total) ELSE ZeroRate

(* ------------------------------ sorting -------------------------------- *)

\* ascending instead of descending
CompareOutboundAscending(a, b) == a.totalOutbound - b.totalOutbound

\* the comparator (a, b) => b.totalOutbound - a.totalOutbound
CompareOutbound(a, b) == b.totalOutbound - a.totalOutbound

\* x goes before the elements that compare equal to it: ties come out reversed
RECURSIVE InsertSortedUnstable(_, _)
InsertSortedUnstable(s, x) ==
    IF s = <<>> THEN <<x>>
    ELSE IF CompareOutbound(Head(s), x) >= 0
         THEN <<x>> \o s
         ELSE <<Head(s)>> \o InsertSortedUnstable(Tail(s), x)

\* x goes after every element that does not compare greater than it
RECURSIVE InsertSorted(_, _)
InsertSorted(s, x) ==
    IF s = <<>> THEN <<x>>
    ELSE IF CompareOutbound(Head(s), x) > 0
         THEN <<x>> \o s
         ELSE <<Head(s)>> \o InsertSorted(Tail(s), x)

\* Array.prototype.sort with CompareOutbound: a stable sort
RECURSIVE SortByOutbound(_)
SortByOutbound(rows) ==
    IF rows = <<>> THEN <<>>
    ELSE InsertSorted(SortByOutbound(SubSeq(rows, 1, Len(rows) - 1)), rows[Len(rows)])

(* ------------------------------ reductions ----------------------------- *)

\* the optional argument of calculateProvinceStats / calculateAccountProvinceStats
NoArg == [given |-> FALSE, value |-> EmptyStr]

Some(s) == [given |-> TRUE, value |-> s]

\* `arg ? ... : ...`: undefined and the empty string are falsy
Truthy(a) == a.given /\ a.value # EmptyStr

ZeroStats ==
    [totalOutbound |-> 0, blackOutbound |-> 0, totalPickup |-> 0,
     blackPickup |-> 0, totalPay |-> 0, blackPay |-> 0]

\* the running total of outbound calls overwritten instead of added to
AddCountsOverwriting(existing, record) ==
    [totalOutbound |-> record.total_outbound_count,
     blackOutbound |-> existing.blackOutbound + record.black_outbound_count,
     totalPickup |-> existing.totalPickup + record.total_pickup_count,
     blackPickup |-> existing.blackPickup + record.black_pickup_count,
     totalPay |-> existing.totalPay + record.total_pay_count,
     blackPay |-> existing.blackPay + record.black_pay_count]

AddCounts(existing, record) ==
    [totalOutbound |-> existing.totalOutbound + record.total_outbound_count,
     blackOutbound |-> existing.blackOutbound + record.black_outbound_count,
     totalPickup |-> existing.totalPickup + record.total_pickup_count,
     blackPickup |-> existing.blackPickup + record.black_pickup_count,
     totalPay |-> existing.totalPay + record.total_pay_count,
     blackPay |-> existing.blackPay + record.black_pay_count]

\* the test of the filter negated: the records with another value are kept
FilterByNegated(recs, field, value) == SelectSeq(recs, LAMBDA r : r[field] # value)

\* the filter left out: every record is kept
FilterKeepAll(recs, field, value) == recs

\* records.filter(r => r[field] === value)
RECURSIVE FilterBy(_, _, _)
FilterBy(recs, field, value) ==
    IF recs = <<>> THEN <<>>
    ELSE IF Head(recs)[field] = value
         THEN <<Head(recs)>> \o FilterBy(Tail(recs), field, value)
         ELSE FilterBy(Tail(recs), field, value)

\* the forEach loop of a keyed reduction; keys[i] is the key of recs[i]
RECURSIVE Accumulate(_, _, _)
Accumulate(keys, recs, map) ==
    IF recs = <<>> THEN map
    ELSE Accumulate(Tail(keys), Tail(recs),
            MapSet(map, Head(keys),
                   AddCounts(MapGetOr(map, Head(keys), ZeroStats), Head(recs))))

\* blackPay summed from the total_pay_count column
RECURSIVE OverallLoopWrongColumn(_, _)
OverallLoopWrongColumn(recs, acc) ==
    IF recs = <<>> THEN acc
    ELSE OverallLoopWrongColumn(Tail(recs),
            [totalOutbound |-> acc.totalOutbound + Head(recs).total_outbound_count,
             blackOutbound |-> acc.blackOutbound + Head(recs).black_outbound_count,
             totalPickup |-> acc.totalPickup + Head(recs).total_pickup_count,
             blackPickup |-> acc.blackPickup + Head(recs).black_pickup_count,
             totalPay |-> acc.totalPay + Head(recs).total_pay_count,
             blackPay |-> acc.blackPay + Head(recs).total_pay_count,
             totalComplain |-> acc.totalComplain + Head(recs).total_complain_count,
             blackComplain |-> acc.blackComplain + Head(recs).black_complain_count])

\* the forEach loop of calculateOverallStats (extended schema)
RECURSIVE OverallLoop(_, _)
OverallLoop(recs, acc) ==
    IF recs = <<>> THEN acc
    ELSE OverallLoop(Tail(recs),
            [totalOutbound |-> acc.totalOutbound + Head(recs).total_outbound_count,
             blackOutbound |-> acc.blackOutbound + Head(recs).black_outbound_count,
             totalPickup |-> acc.totalPickup + Head(recs).total_pickup_count,
             blackPickup |-> acc.blackPickup + Head(recs).black_pickup_count,
             totalPay |-> acc.totalPay + Head(recs).total_pay_count,
             blackPay |-> acc.blackPay + Head(recs).black_pay_count,
             totalComplain |-> acc.totalComplain + Head(recs).total_complain_count,
             blackComplain |-> acc.blackComplain + Head(recs).black_complain_count])

calculateOverallStats(recs) ==
    LET s == OverallLoop(recs,
                [totalOutbound |-> 0, blackOutbound |-> 0, totalPickup |-> 0,
                 blackPickup |-> 0, totalPay |-> 0, blackPay |-> 0,
                 totalComplain |-> 0, blackComplain |-> 0])
    IN  [totalOutbound |-> s.totalOutbound,
         blackOutbound |-> s.blackOutbound,
         totalPickup |-> s.totalPickup,
         blackPickup |-> s.blackPickup,
         totalPay |-> s.totalPay,
         blackPay |-> s.blackPay,
         totalComplain |-> s.totalComplain,
         blackComplain |-> s.blackComplain,
         blackOutboundRate |-> Rate(s.blackOutbound, s.totalOutbound),
         blackPickupRate |-> Rate(s.blackPickup, s.totalPickup),
         blackPayRate |-> Rate(s.blackPay, s.totalPay),
         blackComplainRate |-> Rate(s.blackComplain, s.totalComplain)]

\* the forEach loop of calculateOverallStats (basic schema)
RECURSIVE OverallLoopBasic(_, _)
OverallLoopBasic(recs, acc) ==
    IF recs = <<>> THEN acc
    ELSE OverallLoopBasic(Tail(recs),
            [totalOutbound |-> acc.totalOutbound + Head(recs).total_outbound_count,
             blackOutbound |-> acc.blackOutbound + Head(recs).black_outbound_count,
             totalPickup |-> acc.totalPickup + Head(recs).total_pickup_count,
             blackPickup |-> acc.blackPickup + Head(recs).black_pickup_count,
             totalPay |-> acc.totalPay + Head(recs).total_pay_count,
             blackPay |-> acc.blackPay + Head(recs).black_pay_count])

\* calculateOverallStats of the basic schema (no complaint counters)
calculateOverallStatsBasic(recs) ==
    LET s == OverallLoopBasic(recs, ZeroStats)
    IN  [totalOutbound |-> s.totalOutbound,
         blackOutbound |-> s.blackOutbound,
         totalPickup |-> s.totalPickup,
         blackPickup |-> s.blackPickup,
         totalPay |-> s.totalPay,
         blackPay |-> s.blackPay,
         blackOutboundRate |-> Rate(s.blackOutbound, s.totalOutbound),
         blackPickupRate |-> Rate(s.blackPickup, s.totalPickup),
         blackPayRate |-> Rate(s.blackPay, s.totalPay)]

\* the rows sorted by totalOutbound like those of the other grouped reductions
calculateGroupStatsSorted(recs) ==
    LET keys == [i \in 1..Len(recs) |-> recs[i].group]
        groupMap == Accumulate(keys, recs, <<>>)
    IN  SortByOutbound(
          [i \in 1..Len(groupMap) |->
             LET stats == groupMap[i].value
             IN  [group |-> groupMap[i].key,
                  totalOutbound |-> stats.totalOutbound,
                  blackOutbound |-> stats.blackOutbound,
                  totalPickup |-> stats.totalPickup,
                  blackPickup |-> stats.blackPickup,
                  totalPay |-> stats.totalPay,
                  blackPay |-> stats.blackPay,
                  blackOutboundRate |-> Rate(stats.blackOutbound, stats.totalOutbound),
                  blackPickupRate |-> Rate(stats.blackPickup, stats.totalPickup)]])

calculateGroupStats(recs) ==
    LET keys == [i \in 1..Len(recs) |-> recs[i].group]
        groupMap == Accumulate(keys, recs, <<>>)
    IN  [i \in 1..Len(groupMap) |->
           LET stats == groupMap[i].value
           IN  [group |-> groupMap[i].key,
                totalOutbound |-> stats.totalOutbound,
                blackOutbound |-> stats.blackOutbound,
                totalPickup |-> stats.totalPickup,
                blackPickup |-> stats.blackPickup,
                totalPay |-> stats.totalPay,
                blackPay |-> stats.blackPay,
                blackOutboundRate |-> Rate(stats.blackOutbound, stats.totalOutbound),
                blackPickupRate |-> Rate(stats.blackPickup, stats.totalPickup)]]

\* the province taken verbatim as the key, without the '未知' default
calculateProvinceStatsRawKey(recs, group) ==
    LET filteredRecords == IF Truthy(group)
                           THEN FilterBy(recs, "group", group.value)
                           ELSE recs
        keys == [i \in 1..Len(filteredRecords) |-> filteredRecords[i].province]
        provinceMap == Accumulate(keys, filteredRecords, <<>>)
    IN  SortByOutbound(
          [i \in 1..Len(provinceMap) |->
             LET stats == provinceMap[i].value
             IN  [province |-> provinceMap[i].key,
                  totalOutbound |-> stats.totalOutbound,
                  blackOutbound |-> stats.blackOutbound,
                  totalPickup |-> stats.totalPickup,
                  blackPickup |-> stats.blackPickup,
                  totalPay |-> stats.totalPay,
                  blackPay |-> stats.blackPay,
                  blackOutboundRate |-> Rate(stats.blackOutbound, stats.totalOutbound),
                  blackPickupRate |-> Rate(stats.blackPickup, stats.totalPickup)]])

calculateProvinceStats(recs, group) ==
    LET filteredRecords == IF Truthy(group)
                           THEN FilterBy(recs, "group", group.value)
                           ELSE recs
        keys == [i \in 1..Len(filteredRecords) |->
                   StrOr(filteredRecords[i].province, UNKNOWN)]
        provinceMap == Accumulate(keys, filteredRecords, <<>>)
    IN  SortByOutbound(
          [i \in 1..Len(provinceMap) |->
             LET stats == provinceMap[i].value
             IN  [province |-> provinceMap[i].key,
                  totalOutbound |-> stats.totalOutbound,
                  blackOutbound |-> stats.blackOutbound,
                  totalPickup |-> stats.totalPickup,
                  blackPickup |-> stats.blackPickup,
                  totalPay |-> stats.totalPay,
                  blackPay |-> stats.blackPay,
                  blackOutboundRate |-> Rate(stats.blackOutbound, stats.totalOutbound),
                  blackPickupRate |-> Rate(stats.blackPickup, stats.totalPickup)]])

calculateAccountStats(recs) ==
    LET keys == [i \in 1..Len(recs) |-> StrOr(recs[i].account, UNKNOWN)]
        accountMap == Accumulate(keys, recs, <<>>)
    IN  SortByOutbound(
          [i \in 1..Len(accountMap) |->
             LET stats == accountMap[i].value
             IN  [account |-> accountMap[i].key,
                  totalOutbound |-> stats.totalOutbound,
                  blackOutbound |-> stats.blackOutbound,
                  totalPickup |-> stats.totalPickup,
                  blackPickup |-> stats.blackPickup,
                  totalPay |-> stats.totalPay,
                  blackPay |-> stats.blackPay,
                  blackOutboundRate |-> Rate(stats.blackOutbound, stats.totalOutbound),
                  blackPickupRate |-> Rate(stats.blackPickup, stats.totalPickup)]])

\* `${record.account}|${record.province || '未知'}`
AccountProvinceKey(record) ==
    record.account \o <<"|">> \o StrOr(record.province, UNKNOWN)

\* the forEach loop of calculateAccountProvinceStats: the entry carries the
\* defaulted labels of the record that wrote it last
RECURSIVE AccumulateAccountProvince(_, _)
AccumulateAccountProvince(recs, map) ==
    IF recs = <<>> THEN map
    ELSE LET record == Head(recs)
             key == AccountProvinceKey(record)
             labels == [account |-> StrOr(record.account, UNKNOWN),
                        province |-> StrOr(record.province, UNKNOWN)]
             existing == MapGetOr(map, key, [labels |-> labels, sums |-> ZeroStats])
         IN  AccumulateAccountProvince(Tail(recs),
                MapSet(map, key,
                       [labels |-> labels, sums |-> AddCounts(existing.sums, record)]))

calculateAccountProvinceStats(recs, account) ==
    LET filteredRecords == IF Truthy(account)
                           THEN FilterBy(recs, "account", account.value)
                           ELSE recs
        accountProvinceMap == AccumulateAccountProvince(filteredRecords, <<>>)
    IN  SortByOutbound(
          [i \in 1..Len(accountProvinceMap) |->
             LET stats == accountProvinceMap[i].value
             IN  [account |-> stats.labels.account,
                  province |-> stats.labels.province,
                  totalOutbound |-> stats.sums.totalOutbound,
                  blackOutbound |-> stats.sums.blackOutbound,
                  totalPickup |-> stats.sums.totalPickup,
                  blackPickup |-> stats.sums.blackPickup,
                  totalPay |-> stats.sums.totalPay,
                  blackPay |-> stats.sums.blackPay,
                  blackOutboundRate |->
                      Rate(stats.sums.blackOutbound, stats.sums.totalOutbound),
                  blackPickupRate |->
                      Rate(stats.sums.blackPickup, stats.sums.totalPickup)]])


(* ------------------------------ unique values -------------------------- *)

\* the UTF-16 code unit of a character
CodeUnit(c) ==
    CASE c = " " -> 32
      [] c = "-" -> 45
      [] c = "." -> 46
      [] c = "0" -> 48
      [] c = "1" -> 49
      [] c = "2" -> 50
      [] c = "3" -> 51
      [] c = "4" -> 52
      [] c = "5" -> 53
      [] c = "7" -> 55
      [] c = "9" -> 57
      [] c = "A" -> 65
      [] c = "P" -> 80
      [] c = "Q" -> 81
      [] c = "Z" -> 90
      [] c = "a" -> 97
      [] c = "b" -> 98
      [] c = "d" -> 100
      [] c = "f" -> 102
      [] c = "x" -> 120
      [] c = "|" -> 124
      [] c = "U+5206" -> 20998
      [] c = "U+53D1" -> 21457
      [] c = "U+540D" -> 21517
      [] c = "U+5355" -> 21333
      [] c = "U+672A" -> 26410
      [] c = "U+77E5" -> 30693
      [] c = "U+89E6" -> 35302
      [] c = "U+90E8" -> 37096
      [] c = "U+9ED1" -> 40657

\* the comparison of Array.prototype.sort() without a comparator: strings are
\* ordered by their UTF-16 code units, a proper prefix first
RECURSIVE CompareCodeUnits(_, _)
CompareCodeUnits(a, b) ==
    IF a = <<>> /\ b = <<>> THEN 0
    ELSE IF a = <<>> THEN -1
    ELSE IF b = <<>> THEN 1
    ELSE IF CodeUnit(Head(a)) < CodeUnit(Head(b)) THEN -1
    ELSE IF CodeUnit(Head(a)) > CodeUnit(Head(b)) THEN 1
    ELSE CompareCodeUnits(Tail(a), Tail(b))

\* the primary weight of a character in the collation of localeCompare:
\* punctuation before digits, digits before letters, letters before Han
\* characters (the order among Han characters is the root collation's)
CollationWeight(c) ==
    IF c \in {" ", "-", ".", "|"} THEN CodeUnit(c)
    ELSE IF CodeUnit(c) < 128 THEN 1000 + CodeUnit(c)
    ELSE 2000 + CodeUnit(c)

\* a.localeCompare(b) with the default options: sign of the collation order
RECURSIVE localeCompare(_, _)
localeCompare(a, b) ==
    IF a = <<>> /\ b = <<>> THEN 0
    ELSE IF a = <<>> THEN -1
    ELSE IF b = <<>> THEN 1
    ELSE IF CollationWeight(Head(a)) < CollationWeight(Head(b)) THEN -1
    ELSE IF CollationWeight(Head(a)) > CollationWeight(Head(b)) THEN 1
    ELSE localeCompare(Tail(a), Tail(b))

\* the comparator of getUniqueGroups without the two sentinel branches
CompareGroupsPlain(a, b) == localeCompare(a, b)

\* the comparator of getUniqueGroups
CompareGroups(a, b) ==
    IF a = NOT_TRIGGERED THEN -1
    ELSE IF b = NOT_TRIGGERED THEN 1
    ELSE localeCompare(a, b)

\* Set.prototype.add on a Set kept as the sequence of its values in insertion order
SetAdd(set, x) ==
    IF \E i \in 1..Len(set) : set[i] = x THEN set ELSE Append(set, x)

\* records.forEach(r => set.add(...)); values[i] is the value added for record i
RECURSIVE AddAll(_, _)
AddAll(values, set) ==
    IF values = <<>> THEN set
    ELSE AddAll(Tail(values), SetAdd(set, Head(values)))

RECURSIVE InsertGroup(_, _)
InsertGroup(s, x) ==
    IF s = <<>> THEN <<x>>
    ELSE IF CompareGroups(Head(s), x) > 0
         THEN <<x>> \o s
         ELSE <<Head(s)>> \o InsertGroup(Tail(s), x)

\* Array.prototype.sort with CompareGroups
RECURSIVE SortGroups(_)
SortGroups(values) ==
    IF values = <<>> THEN <<>>
    ELSE InsertGroup(SortGroups(SubSeq(values, 1, Len(values) - 1)), values[Len(values)])

RECURSIVE InsertString(_, _)
InsertString(s, x) ==
    IF s = <<>> THEN <<x>>
    ELSE IF CompareCodeUnits(Head(s), x) > 0
         THEN <<x>> \o s
         ELSE <<Head(s)>> \o InsertString(Tail(s), x)

\* the sort left out: the values stay in insertion order
SortStringsSkipped(values) == values

\* Array.prototype.sort without a comparator
RECURSIVE SortStrings(_)
SortStrings(values) ==
    IF values = <<>> THEN <<>>
    ELSE InsertString(SortStrings(SubSeq(values, 1, Len(values) - 1)), values[Len(values)])

getUniqueGroups(recs) ==
    SortGroups(AddAll([i \in 1..Len(recs) |-> recs[i].group], <<>>))

getUniqueProvinces(recs) ==
    SortStrings(AddAll([i \in 1..Len(recs) |-> StrOr(recs[i].province, UNKNOWN)], <<>>))

getUniqueAccounts(recs) ==
    SortStrings(AddAll([i \in 1..Len(recs) |-> StrOr(recs[i].account, UNKNOWN)], <<>>))

(* ------------------------------ inputs --------------------------------- *)

AccountA == <<"A">>

ProvinceP == <<"P">>

Group31 == <<"3", "1">>

Group32 == <<"3", "2">>

Group4 == <<"4">>

\* labels that hold the separator of the account-province key
AccountPipe == <<"A", "|", "P">>

ProvinceQ == <<"Q">>

ProvincePipe == <<"P", "|", "Q">>

\* (account, province, group) of the records handed to the engine: blank and
\* literal '未知' labels, labels holding a '|', three numeric groups, the
\* sentinel and the empty group
EngineKeys ==
    { <<AccountA, ProvinceP, Group31>>,
      <<AccountA, EmptyStr, Group32>>,
      <<EmptyStr, ProvinceP, NOT_TRIGGERED>>,
      <<UNKNOWN, UNKNOWN, EmptyStr>>,
      <<EmptyStr, UNKNOWN, Group31>>,
      <<UNKNOWN, ProvinceP, Group31>>,
      <<AccountPipe, ProvinceQ, Group4>>,
      <<AccountA, ProvincePipe, NOT_TRIGGERED>> }

\* <<total_outbound, black_outbound, total_pickup, black_pickup, total_pay,
\*   black_pay, total_complain, black_complain>>: all zero, two rows with
\* black <= total, and one row with black > total and totals <= 0
EngineCounters ==
    { <<0, 0, 0, 0, 0, 0, 0, 0>>,
      <<3, 1, 2, 2, 1, 0, 4, 1>>,
      <<1, 1, 3, 0, 2, 1, 1, 1>>,
      <<0, 1, -1, 0, 1, 2, -4, 1>> }

MakeRecord(k, c) ==
    [dt |-> <<"d">>, account |-> k[1], province |-> k[2], group |-> k[3],
     total_outbound_count |-> c[1], black_outbound_count |-> c[2],
     total_pickup_count |-> c[3], black_pickup_count |-> c[4],
     total_pay_count |-> c[5], black_pay_count |-> c[6],
     total_complain_count |-> c[7], black_complain_count |-> c[8]]

EngineRecords == {MakeRecord(k, c) : k \in EngineKeys, c \in EngineCounters}

\* the record sequences handed to the engine
IsEngineInput(recs) == \E n \in 0..MaxLen : recs \in [1..n -> EngineRecords]

GroupArgs == {NoArg} \cup {Some(g) : g \in {EmptyStr, Group31, Group32, NOT_TRIGGERED, <<"9">>}}

AccountArgs == {NoArg} \cup {Some(a) : a \in {EmptyStr, UNKNOWN, AccountA, <<"Z">>}}

\* the fields of a counter column in an uploaded text
CounterFields ==
    { EmptyStr, <<"7">>, <<"1", "2">>, <<"-", "3">>, <<"1", "2", "a">>,
      <<"0", "x", "1", "f">>, <<"a", "b">>, <<" ", "5">>, <<"3", ".", "7">>,
      <<Quote, "4", Quote>>, <<Quote, "4">> }

\* the fields of a string column
StringFields == { EmptyStr, AccountA }

CounterColumns ==
    { "total_outbound_count", "black_outbound_count", "total_pickup_count",
      "black_pickup_count", "total_pay_count", "black_pay_count",
      "total_complain_count", "black_complain_count" }

ColumnFields(col) == IF col \in CounterColumns THEN CounterFields ELSE StringFields

\* header lines: every column the parser reads, in pairs; a reordered one, one
\* without the account column, a single column and an unknown column
Headers ==
    { <<"account", "total_outbound_count">>,
      <<"province", "black_outbound_count">>,
      <<"group", "total_pickup_count">>,
      <<"black_pickup_count", "account">>,
      <<"dt", "total_pay_count">>,
      <<"remark", "black_pay_count">>,
      <<"account", "total_complain_count">>,
      <<"province", "black_complain_count">>,
      <<"account", "province", "group">>,
      <<"group">> }

HeaderLine(h) == [j \in 1..Len(h) |-> Col(h[j])]

\* the data lines under header h: every combination of the columns' fields,
\* the empty line, a line one field short and a line one field long
DataLines(h) ==
    { l \in [1..Len(h) -> CounterFields \cup StringFields] :
         \A j \in 1..Len(h) : l[j] \in ColumnFields(h[j]) }
    \cup { EmptyLine, <<AccountA>>, [j \in 1..(Len(h) + 1) |-> <<"7">>] }

\* the uploaded texts: nothing at all, or a header line and up to MaxLines
\* data lines
IsText(text) ==
    \/ text = <<>>
    \/ \E h \in Headers : \E n \in 0..MaxLines : \E ls \in [1..n -> DataLines(h)] :
          text = <<HeaderLine(h)>> \o ls

(* ------------------------------ engine calls --------------------------- *)

\* a reduction is computed once from the records at hand: the engine's input,
\* or the records just parsed
Ready == call \in {"none", "parseCSVData"}

CallOverallStats ==
    /\ Ready
    /\ call' = "calculateOverallStats"
    /\ arg' = NoArg
    /\ result' = calculateOverallStats(records)
    /\ UNCHANGED <<csvText, records>>
    /\ UNCHANGED appVars

CallOverallStatsBasic ==
    /\ Ready
    /\ call' = "calculateOverallStatsBasic"
    /\ arg' = NoArg
    /\ result' = calculateOverallStatsBasic(records)
    /\ UNCHANGED <<csvText, records>>
    /\ UNCHANGED appVars

CallGroupStats ==
    /\ Ready
    /\ call' = "calculateGroupStats"
    /\ arg' = NoArg
    /\ result' = calculateGroupStats(records)
    /\ UNCHANGED <<csvText, records>>
    /\ UNCHANGED appVars

CallProvinceStats ==
    /\ Ready
    /\ \E a \in GroupArgs :
          /\ arg' = a
          /\ result' = calculateProvinceStats(records, a)
    /\ call' = "calculateProvinceStats"
    /\ UNCHANGED <<csvText, records>>
    /\ UNCHANGED appVars

CallAccountStats ==
    /\ Ready
    /\ call' = "calculateAccountStats"
    /\ arg' = NoArg
    /\ result' = calculateAccountStats(records)
    /\ UNCHANGED <<csvText, records>>
    /\ UNCHANGED appVars

CallAccountProvinceStats ==
    /\ Ready
    /\ \E a \in AccountArgs :
          /\ arg' = a
          /\ result' = calculateAccountProvinceStats(records, a)
    /\ call' = "calculateAccountProvinceStats"
    /\ UNCHANGED <<csvText, records>>
    /\ UNCHANGED appVars

CallUniqueGroups ==
    /\ Ready
    /\ call' = "getUniqueGroups"
    /\ arg' = NoArg
    /\ result' = getUniqueGroups(records)
    /\ UNCHANGED <<csvText, records>>
    /\ UNCHANGED appVars

CallUniqueProvinces ==
    /\ Ready
    /\ call' = "getUniqueProvinces"
    /\ arg' = NoArg
    /\ result' = getUniqueProvinces(records)
    /\ UNCHANGED <<csvText, records>>
    /\ UNCHANGED appVars

CallUniqueAccounts ==
    /\ Ready
    /\ call' = "getUniqueAccounts"
    /\ arg' = NoArg
    /\ result' = getUniqueAccounts(records)
    /\ UNCHANGED <<csvText, records>>
    /\ UNCHANGED appVars

EngineCall ==
    \/ CallOverallStats
    \/ CallOverallStatsBasic
    \/ CallGroupStats
    \/ CallProvinceStats
    \/ CallAccountStats
    \/ CallAccountProvinceStats
    \/ CallUniqueGroups
    \/ CallUniqueProvinces
    \/ CallUniqueAccounts

(* ------------------------------ the engine on any records -------------- *)

Init ==
    /\ csvText = <<>>
    /\ IsEngineInput(records)
    /\ call = "none"
    /\ arg = NoArg
    /\ result = <<>>
    /\ AppIdle

Next == EngineCall

Spec == Init /\ [][Next]_vars

(* ------------------------------ the parser, then the engine ------------ *)

ParseCSV ==
    /\ call = "none"
    /\ records' = parseCSVData(csvText)
    /\ call' = "parseCSVData"
    /\ arg' = NoArg
    /\ result' = records'
    /\ UNCHANGED csvText
    /\ UNCHANGED appVars

InitParser ==
    /\ IsText(csvText)
    /\ records = <<>>
    /\ call = "none"
    /\ arg = NoArg
    /\ result = <<>>
    /\ AppIdle

\* a parse without records is refused by the upload handler; otherwise the
\* report view computes the account statistics of the parsed records
ReportAccountStats ==
    /\ call = "parseCSVData"
    /\ Len(records) > 0
    /\ CallAccountStats

NextParser ==
    \/ ParseCSV
    \/ ReportAccountStats

SpecParser == InitParser /\ [][NextParser]_vars


(* ------------------------------ properties: the engine ----------------- *)

\* the sum of one counter over a record sequence
RECURSIVE SumOf(_, _)
SumOf(recs, field) ==
    IF Len(recs) = 0 THEN 0
    ELSE recs[Len(recs)][field] + SumOf(SubSeq(recs, 1, Len(recs) - 1), field)

\* summed field of a StatsRow -> the counter it sums
SummedCounter ==
    [totalOutbound |-> "total_outbound_count", blackOutbound |-> "black_outbound_count",
     totalPickup |-> "total_pickup_count", blackPickup |-> "black_pickup_count",
     totalPay |-> "total_pay_count", blackPay |-> "black_pay_count",
     totalComplain |-> "total_complain_count", blackComplain |-> "black_complain_count"]

BasicSums ==
    {"totalOutbound", "blackOutbound", "totalPickup", "blackPickup", "totalPay", "blackPay"}

\* <<rate, black sum, total sum>> of every derived rate a row may carry
RateFields ==
    { <<"blackOutboundRate", "blackOutbound", "totalOutbound">>,
      <<"blackPickupRate", "blackPickup", "totalPickup">>,
      <<"blackPayRate", "blackPay", "totalPay">>,
      <<"blackComplainRate", "blackComplain", "totalComplain">> }

OverallCalls == {"calculateOverallStats", "calculateOverallStatsBasic"}

GroupedCalls ==
    {"calculateGroupStats", "calculateProvinceStats", "calculateAccountStats",
     "calculateAccountProvinceStats"}

SortedCalls ==
    {"calculateProvinceStats", "calculateAccountStats", "calculateAccountProvinceStats"}

\* the rows of the last reduction's result (the overall result is one row)
ResultRows ==
    IF call \in OverallCalls THEN <<result>>
    ELSE IF call \in GroupedCalls THEN result
    ELSE <<>>

RECURSIVE SumRows(_, _)
SumRows(rows, field) ==
    IF Len(rows) = 0 THEN 0
    ELSE rows[Len(rows)][field] + SumRows(SubSeq(rows, 1, Len(rows) - 1), field)

\* C1: every summed field returned by calculateOverallStats (both schemas)
\* equals the sum of its counter over all records, the empty sequence included.
C1_SumInvariant ==
    /\ call = "calculateOverallStats" =>
          \A f \in DOMAIN SummedCounter : result[f] = SumOf(records, SummedCounter[f])
    /\ call = "calculateOverallStatsBasic" =>
          \A f \in BasicSums : result[f] = SumOf(records, SummedCounter[f])

C1_Witness ==
    /\ call = "calculateOverallStats"
    /\ Len(records) = 2
    /\ records[1] # records[2]
    /\ result.totalOutbound = 4
    /\ result.blackPay = 1
    /\ result.totalComplain = 5

\* C2: for every unfiltered grouped reduction the totalOutbound of the rows
\* adds up to calculateOverallStats(records).totalOutbound.
C2_Partition ==
    (call \in GroupedCalls /\ ~arg.given) =>
        SumRows(result, "totalOutbound") = calculateOverallStats(records).totalOutbound

C2_Witness ==
    /\ call = "calculateAccountProvinceStats"
    /\ ~arg.given
    /\ Len(records) = 2
    /\ Len(result) = 1
    /\ result[1].totalOutbound = 4

\* C3: the rows of the province, account and account-province reductions are in
\* descending order of totalOutbound, whatever the filter argument.
C3_Descending ==
    call \in SortedCalls =>
        \A i \in 1..(Len(result) - 1) : result[i].totalOutbound >= result[i + 1].totalOutbound

C3_Witness ==
    /\ call = "calculateProvinceStats"
    /\ arg.given
    /\ Len(result) = 2
    /\ Len(records) = 2
    /\ records[1].total_outbound_count < records[2].total_outbound_count
    /\ result[1].totalOutbound > result[2].totalOutbound

\* a rate is a number (neither NaN nor an infinity)
Finite(rate) == rate[2] # 0

\* C9: in every row of every reduction each derived rate is a finite number,
\* and it is exactly 0 when its total sum is not greater than 0.
C9_ZeroDenominator ==
    \A i \in 1..Len(ResultRows) : \A t \in RateFields :
        t[1] \in DOMAIN ResultRows[i] =>
            /\ Finite(ResultRows[i][t[1]])
            /\ ResultRows[i][t[3]] <= 0 => ResultRows[i][t[1]][1] = 0

C9_Witness ==
    /\ call = "calculateGroupStats"
    /\ Len(result) = 2
    /\ result[2].totalOutbound = 0
    /\ result[2].blackOutbound > 0
    /\ result[2].totalPickup < 0
    /\ result[2].blackOutboundRate = ZeroRate

\* every record has 0 <= black <= total for each counter pair
ValidRecords ==
    \A i \in 1..Len(records) :
        /\ 0 <= records[i].black_outbound_count
        /\ records[i].black_outbound_count <= records[i].total_outbound_count
        /\ 0 <= records[i].black_pickup_count
        /\ records[i].black_pickup_count <= records[i].total_pickup_count
        /\ 0 <= records[i].black_pay_count
        /\ records[i].black_pay_count <= records[i].total_pay_count
        /\ 0 <= records[i].black_complain_count
        /\ records[i].black_complain_count <= records[i].total_complain_count

\* 0 <= rate <= 100 for a fraction <<n, d>>
InPercentRange(rate) ==
    /\ rate[2] > 0
    /\ 0 <= rate[1]
    /\ rate[1] <= 100 * rate[2]

\* C10: when every record has 0 <= black <= total, every derived rate of every
\* reduction, filtered or not, lies in [0, 100].
C10_RateBounds ==
    ValidRecords =>
        \A i \in 1..Len(ResultRows) : \A t \in RateFields :
            t[1] \in DOMAIN ResultRows[i] => InPercentRange(ResultRows[i][t[1]])

C10_Witness ==
    /\ ValidRecords
    /\ call = "calculateAccountProvinceStats"
    /\ arg.given
    /\ Len(records) = 2
    /\ Len(result) = 1
    /\ result[1].blackOutboundRate = <<200, 4>>
    /\ result[1].blackPickupRate = <<200, 5>>


(* ------------------------------ properties: the parser ----------------- *)

\* the positions of the non-empty lines of the text
NonEmptyIdx == {i \in 1..Len(csvText) : ~IsEmptyLine(csvText[i])}

\* the n-th non-empty line
NthLine(n) ==
    csvText[CHOOSE i \in NonEmptyIdx : Cardinality({j \in NonEmptyIdx : j < i}) = n - 1]

DataRowCount == IF NonEmptyIdx = {} THEN 0 ELSE Cardinality(NonEmptyIdx) - 1

\* data row k is the (k + 1)-th non-empty line
DataRow(k) == NthLine(k + 1)

HasColumn(name) ==
    NonEmptyIdx # {} /\ \E j \in 1..Len(NthLine(1)) : FieldValue(NthLine(1)[j]) = Col(name)

\* the field of data row k under column name (the row has the header's length)
FieldAt(k, name) ==
    FieldValue(DataRow(k)[CHOOSE j \in 1..Len(NthLine(1)) : FieldValue(NthLine(1)[j]) = Col(name)])

SplitterErrors == PapaParse(csvText).errors

DecimalDigits == {"0", "1", "2", "3", "4", "5", "6", "7", "8", "9"}

\* white space around the field and one leading sign set aside
RECURSIVE TrimEnd(_)
TrimEnd(s) ==
    IF s # <<>> /\ s[Len(s)] \in WhiteSpace THEN TrimEnd(SubSeq(s, 1, Len(s) - 1)) ELSE s

Unsigned(s) ==
    LET t == TrimEnd(TrimStart(s))
    IN  IF t # <<>> /\ t[1] \in {"+", "-"} THEN Tail(t) ELSE t

\* the field is a base-10 integer: an optional sign and decimal digits only
IsDecimalInteger(s) ==
    /\ Unsigned(s) # <<>>
    /\ \A j \in 1..Len(Unsigned(s)) : Unsigned(s)[j] \in DecimalDigits

RECURSIVE DecimalMagnitude(_)
DecimalMagnitude(u) ==
    IF u = <<>> THEN 0
    ELSE 10 * DecimalMagnitude(SubSeq(u, 1, Len(u) - 1)) + DigitValue(u[Len(u)])

DecimalValue(s) ==
    LET t == TrimStart(s)
    IN  IF t[1] = "-" THEN 0 - DecimalMagnitude(Unsigned(s)) ELSE DecimalMagnitude(Unsigned(s))

\* C4: every counter of every record returned by parseCSVData is a
\* non-negative integer.
C4_NonNegativeCounters ==
    call = "parseCSVData" =>
        \A k \in 1..Len(result) : \A c \in CounterColumns : result[k][c] \in Nat

\* C5: each counter is the base-10 integer value of its field, and 0 when the
\* field is absent or is not a base-10 integer.
C5_Base10Coercion ==
    (call = "parseCSVData" /\ SplitterErrors = <<>>) =>
        \A k \in 1..Len(result) : \A c \in CounterColumns :
            result[k][c] =
                IF HasColumn(c) /\ IsDecimalInteger(FieldAt(k, c))
                THEN DecimalValue(FieldAt(k, c))
                ELSE 0

\* C6: when the splitter reports an error or yields no data row the parser
\* returns the empty sequence; it never returns only some of the rows.
C6_AllOrNothing ==
    call = "parseCSVData" =>
        /\ (SplitterErrors # <<>> \/ DataRowCount = 0) => result = <<>>
        /\ result = <<>> \/ Len(result) = DataRowCount

C6_Witness ==
    /\ call = "parseCSVData"
    /\ SplitterErrors # <<>>
    /\ DataRowCount = 2
    /\ Len(DataRow(1)) = Len(NthLine(1))
    /\ \A j \in 1..Len(DataRow(1)) : ~BadQuote(DataRow(1)[j])
    /\ result = <<>>

\* C7: when the splitter reports no error the parser returns one record per
\* non-empty data row, record k built from data row k.
C7_OneRecordPerRowInOrder ==
    (call = "parseCSVData" /\ SplitterErrors = <<>>) =>
        /\ Len(result) = DataRowCount
        /\ \A k \in 1..DataRowCount :
              result[k] = ToRecord(RowObject([j \in 1..Len(NthLine(1)) |->
                                                 FieldValue(NthLine(1)[j])], DataRow(k)))

C7_Witness ==
    /\ call = "parseCSVData"
    /\ SplitterErrors = <<>>
    /\ Len(csvText) = 3
    /\ Len(result) = 2
    /\ result[1].account = AccountA
    /\ result[2].account = UNKNOWN
    /\ result[1].total_outbound_count = 7
    /\ result[2].total_outbound_count = 12

Over100(rate) == rate[2] > 0 /\ rate[1] > 100 * rate[2]

\* C11 as stated: in every row of every reduction, whenever a summed black
\* count exceeds its summed total count the derived rate is greater than 100.
C11_UnclampedAlways ==
    \A i \in 1..Len(ResultRows) : \A t \in RateFields :
        t[1] \in DOMAIN ResultRows[i] =>
            (ResultRows[i][t[2]] > ResultRows[i][t[3]] => Over100(ResultRows[i][t[1]]))

\* C11: in every row of every reduction, whenever a summed black count exceeds
\* its summed total count, the derived rate is greater than 100 if the total is
\* greater than 0, and it is 0 if the total is not greater than 0.
C11_Unclamped ==
    \A i \in 1..Len(ResultRows) : \A t \in RateFields :
        (t[1] \in DOMAIN ResultRows[i] /\ ResultRows[i][t[2]] > ResultRows[i][t[3]]) =>
            IF ResultRows[i][t[3]] > 0
            THEN Over100(ResultRows[i][t[1]])
            ELSE ResultRows[i][t[1]] = ZeroRate

C11_Witness ==
    /\ call = "calculateAccountStats"
    /\ Len(records) = 2
    /\ Len(result) = 1
    /\ result[1].totalOutbound = 1
    /\ result[1].blackOutbound = 2
    /\ result[1].blackOutboundRate = <<200, 1>>

\* the records of recs whose field holds value, in order
Matching(recs, field, value) == SelectSeq(recs, LAMBDA r : r[field] = value)

\* the province label of a record
ProvinceOf(r) == StrOr(r.province, UNKNOWN)

\* the account label of a record
AccountOf(r) == StrOr(r.account, UNKNOWN)

\* the rows hold exactly the records of sel, one row per province
ExactByProvince(rows, sel) ==
    /\ {rows[i].province : i \in 1..Len(rows)} = {ProvinceOf(sel[k]) : k \in 1..Len(sel)}
    /\ \A i, j \in 1..Len(rows) : rows[i].province = rows[j].province => i = j
    /\ \A i \in 1..Len(rows) : \A f \in BasicSums :
          rows[i][f] = SumOf(SelectSeq(sel, LAMBDA r : ProvinceOf(r) = rows[i].province),
                             SummedCounter[f])

\* the rows hold exactly the records of sel, one row per (account, province)
ExactByAccountProvince(rows, sel) ==
    /\ {<<rows[i].account, rows[i].province>> : i \in 1..Len(rows)}
          = {<<AccountOf(sel[k]), ProvinceOf(sel[k])>> : k \in 1..Len(sel)}
    /\ \A i, j \in 1..Len(rows) :
          (rows[i].account = rows[j].account /\ rows[i].province = rows[j].province) => i = j
    /\ \A i \in 1..Len(rows) : \A f \in BasicSums :
          rows[i][f] = SumOf(SelectSeq(sel, LAMBDA r : /\ AccountOf(r) = rows[i].account
                                                       /\ ProvinceOf(r) = rows[i].province),
                             SummedCounter[f])

\* C12 as stated: with a filter value supplied, the empty string included,
\* calculateProvinceStats aggregates exactly the records whose group equals it
\* and calculateAccountProvinceStats exactly the records whose account equals it.
C12_FilterExactAnyValue ==
    /\ (call = "calculateProvinceStats" /\ arg.given) =>
          ExactByProvince(result, Matching(records, "group", arg.value))
    /\ (call = "calculateAccountProvinceStats" /\ arg.given) =>
          ExactByAccountProvince(result, Matching(records, "account", arg.value))

\* C12: with a non-empty filter value supplied, calculateProvinceStats
\* aggregates exactly the records whose group equals it and
\* calculateAccountProvinceStats exactly the records whose account equals it;
\* with the empty string supplied, every record is aggregated.
C12_FilterExact ==
    /\ (call = "calculateProvinceStats" /\ arg.given /\ arg.value # EmptyStr) =>
          ExactByProvince(result, Matching(records, "group", arg.value))
    /\ (call = "calculateAccountProvinceStats" /\ arg.given /\ arg.value # EmptyStr) =>
          ExactByAccountProvince(result, Matching(records, "account", arg.value))
    /\ (call \in {"calculateProvinceStats", "calculateAccountProvinceStats"}
          /\ arg.given /\ arg.value = EmptyStr) =>
          \A f \in BasicSums : SumRows(result, f) = SumOf(records, SummedCounter[f])

C12_Witness ==
    /\ call = "calculateProvinceStats"
    /\ arg = Some(Group31)
    /\ Len(records) = 2
    /\ records[1].group = Group32
    /\ records[2].group = Group31
    /\ records[1].total_outbound_count = 3
    /\ Len(result) = 1
    /\ result[1].totalOutbound = 1

\* every counter of every record is a non-negative integer
NonNegativeRecords ==
    \A k \in 1..Len(records) : \A c \in CounterColumns : records[k][c] >= 0

\* C13: for records with non-negative counters and every group g, each row of
\* calculateProvinceStats(records, g) has sums no greater than those of the row
\* of the same province in calculateProvinceStats(records); when g is the only
\* group present in the records the two results are equal.
C13_FilterSubset ==
    (call = "calculateProvinceStats" /\ arg.given /\ NonNegativeRecords) =>
        LET unfiltered == calculateProvinceStats(records, NoArg)
        IN  /\ \A i \in 1..Len(result) : \E j \in 1..Len(unfiltered) :
                  /\ unfiltered[j].province = result[i].province
                  /\ \A f \in BasicSums : result[i][f] <= unfiltered[j][f]
            /\ (\A k \in 1..Len(records) : records[k].group = arg.value) =>
                  result = unfiltered

\* a filtered row strictly below the unfiltered row of its province
C13_Witness ==
    /\ call = "calculateProvinceStats"
    /\ arg = Some(NOT_TRIGGERED)
    /\ NonNegativeRecords
    /\ Len(records) = 2
    /\ records[1].group = Group31
    /\ records[1].province = ProvinceP
    /\ records[1].total_outbound_count = 3
    /\ records[2].group = NOT_TRIGGERED
    /\ records[2].province = ProvinceP
    /\ Len(result) = 1
    /\ result[1].totalOutbound = 1
    /\ calculateProvinceStats(records, NoArg)[1].totalOutbound = 4

\* the records that take part in a filtered reduction
Participating(field) ==
    IF arg.given /\ arg.value # EmptyStr THEN Matching(records, field, arg.value) ELSE records

\* C14: calculateAccountProvinceStats returns exactly one row per distinct pair
\* (account or '未知', province or '未知') of the participating records, with
\* the sums of exactly the records of that pair: no two rows carry the same
\* labels and no row merges records of different pairs.
C14_AccountProvinceGrouping ==
    call = "calculateAccountProvinceStats" =>
        ExactByAccountProvince(result, Participating("account"))

\* the index at which x occurs first in a sequence
FirstIndex(values, x) ==
    CHOOSE k \in 1..Len(values) : values[k] = x /\ \A m \in 1..(k - 1) : values[m] # x

\* C15: calculateGroupStats returns one row per distinct group value taken
\* verbatim (the empty string is a group of its own), the rows in the order in
\* which the groups occur first in the records, each with the sums of exactly
\* the records of its group.
C15_GroupReduction ==
    call = "calculateGroupStats" =>
        LET groups == [k \in 1..Len(records) |-> records[k].group]
        IN  /\ {result[i].group : i \in 1..Len(result)} = {groups[k] : k \in 1..Len(groups)}
            /\ \A i, j \in 1..Len(result) :
                  i < j => FirstIndex(groups, result[i].group) < FirstIndex(groups, result[j].group)
            /\ \A i \in 1..Len(result) : \A f \in BasicSums :
                  result[i][f] = SumOf(Matching(records, "group", result[i].group),
                                       SummedCounter[f])

\* the group seen first has the smaller total and still comes first; the
\* empty group has a row of its own
C15_Witness ==
    /\ call = "calculateGroupStats"
    /\ Len(records) = 2
    /\ records[1].group = Group31
    /\ records[2].group = EmptyStr
    /\ Len(result) = 2
    /\ result[1].group = Group31
    /\ result[1].totalOutbound = 1
    /\ result[2].group = EmptyStr
    /\ result[2].totalOutbound = 3

\* the rows hold exactly the records of sel, one row per account
ExactByAccount(rows, sel) ==
    /\ {rows[i].account : i \in 1..Len(rows)} = {AccountOf(sel[k]) : k \in 1..Len(sel)}
    /\ \A i, j \in 1..Len(rows) : rows[i].account = rows[j].account => i = j
    /\ \A i \in 1..Len(rows) : \A f \in BasicSums :
          rows[i][f] = SumOf(SelectSeq(sel, LAMBDA r : AccountOf(r) = rows[i].account),
                             SummedCounter[f])

\* the values of a sequence
Range(s) == {s[i] : i \in 1..Len(s)}

\* C16: calculateProvinceStats and calculateAccountStats group by the key
\* defaulted to '未知': records with a blank key and records with the literal
\* '未知' are summed in one row, and the row keys of the unfiltered result are
\* the values returned by getUniqueProvinces / getUniqueAccounts.
C16_DefaultedKeys ==
    /\ (call = "calculateProvinceStats" /\ ~arg.given) =>
          /\ ExactByProvince(result, records)
          /\ {result[i].province : i \in 1..Len(result)} = Range(getUniqueProvinces(records))
    /\ call = "calculateAccountStats" =>
          /\ ExactByAccount(result, records)
          /\ {result[i].account : i \in 1..Len(result)} = Range(getUniqueAccounts(records))

\* a blank province and a literal '未知' province summed in one row
C16_Witness ==
    /\ call = "calculateProvinceStats"
    /\ ~arg.given
    /\ Len(records) = 2
    /\ records[1].province = EmptyStr
    /\ records[1].total_outbound_count = 3
    /\ records[2].province = UNKNOWN
    /\ records[2].total_outbound_count = 1
    /\ Len(result) = 1
    /\ result[1].province = UNKNOWN
    /\ result[1].totalOutbound = 4
    /\ getUniqueProvinces(records) = <<UNKNOWN>>

\* the Map key under which the last sorted reduction files a record
SortKey(r) ==
    CASE call = "calculateProvinceStats" -> ProvinceOf(r)
      [] call = "calculateAccountStats" -> AccountOf(r)
      [] call = "calculateAccountProvinceStats" -> AccountProvinceKey(r)

\* the records the last sorted reduction aggregates
SortedInput ==
    IF call = "calculateProvinceStats" THEN Participating("group")
    ELSE IF call = "calculateAccountProvinceStats" THEN Participating("account")
    ELSE records

\* the records of the input filed under key x
FiledUnder(x) == SelectSeq(SortedInput, LAMBDA r : SortKey(r) = x)

\* row is the row of key x: its labels are those of a record filed under x and
\* its sums are the sums of the records filed under x
RowOfKey(row, x) ==
    /\ \A f \in BasicSums : row[f] = SumOf(FiledUnder(x), SummedCounter[f])
    /\ \E k \in 1..Len(FiledUnder(x)) :
          /\ "province" \in DOMAIN row => row.province = ProvinceOf(FiledUnder(x)[k])
          /\ "account" \in DOMAIN row => row.account = AccountOf(FiledUnder(x)[k])

\* C17: in the results of calculateProvinceStats, calculateAccountStats and
\* calculateAccountProvinceStats, the rows of two keys with equal totalOutbound
\* stand in the order in which the keys occur first in the (filtered) records.
C17_StableTies ==
    call \in SortedCalls =>
        LET keys == [k \in 1..Len(SortedInput) |-> SortKey(SortedInput[k])]
        IN  \A x, y \in Range(keys) :
                ( /\ FirstIndex(keys, x) < FirstIndex(keys, y)
                  /\ SumOf(FiledUnder(x), "total_outbound_count")
                       = SumOf(FiledUnder(y), "total_outbound_count") ) =>
                    \E i, j \in 1..Len(result) :
                        i < j /\ RowOfKey(result[i], x) /\ RowOfKey(result[j], y)

\* two provinces with equal totalOutbound and different black counts: the one
\* seen first comes first
C17_Witness ==
    /\ call = "calculateProvinceStats"
    /\ ~arg.given
    /\ Len(records) = 2
    /\ records[1].province = EmptyStr
    /\ records[1].total_outbound_count = 0
    /\ records[1].black_outbound_count = 1
    /\ records[2].province = ProvinceP
    /\ records[2].total_outbound_count = 0
    /\ records[2].black_outbound_count = 0
    /\ Len(result) = 2
    /\ result[1].province = UNKNOWN
    /\ result[1].blackOutbound = 1
    /\ result[2].province = ProvinceP

\* rate is the number total > 0 ? (black / total) * 100 : 0
IsRateOf(rate, black, total) ==
    /\ rate[2] # 0
    /\ IF total > 0 THEN rate[1] * total = black * 100 * rate[2] ELSE rate[1] = 0

\* the (total, black) pairs a row sums, as entries of RateFields
SummedPairs(row) == {t \in RateFields : t[2] \in DOMAIN row /\ t[3] \in DOMAIN row}

\* C19 as stated: every row of every reduction carries, for each (total, black)
\* pair it sums, a rate equal to total > 0 ? (black / total) * 100 : 0.
C19_RateForEveryPair ==
    \A i \in 1..Len(ResultRows) : \A t \in SummedPairs(ResultRows[i]) :
        /\ t[1] \in DOMAIN ResultRows[i]
        /\ IsRateOf(ResultRows[i][t[1]], ResultRows[i][t[2]], ResultRows[i][t[3]])

\* C19: the row of calculateOverallStats carries, for each (total, black) pair
\* it sums, a rate equal to total > 0 ? (black / total) * 100 : 0; the rows of
\* the grouped reductions carry such a rate for the outbound and the pickup
\* pair only, and no rate for the pay pair they sum.
C19_RatesApplied ==
    \A i \in 1..Len(ResultRows) : \A t \in SummedPairs(ResultRows[i]) :
        IF call \in GroupedCalls /\ t[1] = "blackPayRate"
        THEN t[1] \notin DOMAIN ResultRows[i]
        ELSE /\ t[1] \in DOMAIN ResultRows[i]
             /\ IsRateOf(ResultRows[i][t[1]], ResultRows[i][t[2]], ResultRows[i][t[3]])

\* a group row that sums the pay pair and carries the two other rates only
C19_Witness ==
    /\ call = "calculateGroupStats"
    /\ Len(records) = 1
    /\ Len(result) = 1
    /\ result[1].totalPay = 2
    /\ result[1].blackPay = 1
    /\ result[1].blackOutboundRate = <<100, 1>>
    /\ result[1].blackPickupRate = <<0, 3>>
    /\ "blackPayRate" \notin DOMAIN result[1]

\* C20: getUniqueGroups returns every distinct group value of the records
\* exactly once; the sentinel '未触发黑名单部分', if it occurs, comes first, and
\* the other values follow in ascending lexical order.
C20_UniqueGroups ==
    call = "getUniqueGroups" =>
        /\ Range(result) = {records[k].group : k \in 1..Len(records)}
        /\ \A i, j \in 1..Len(result) : result[i] = result[j] => i = j
        /\ NOT_TRIGGERED \in Range(result) => result[1] = NOT_TRIGGERED
        /\ \A i, j \in 1..Len(result) :
              (i < j /\ result[i] # NOT_TRIGGERED /\ result[j] # NOT_TRIGGERED) =>
                  localeCompare(result[i], result[j]) < 0

\* the sentinel is seen last and comes first
C20_Witness ==
    /\ call = "getUniqueGroups"
    /\ Len(records) = 2
    /\ records[1].group = Group4
    /\ records[2].group = NOT_TRIGGERED
    /\ result = <<NOT_TRIGGERED, Group4>>

\* C21: getUniqueProvinces and getUniqueAccounts return every distinct value
\* of the province / account defaulted to '未知' exactly once and nothing else,
\* in ascending order of their UTF-16 code units.
C21_UniqueSorted ==
    /\ call = "getUniqueProvinces" =>
          /\ Range(result) = {ProvinceOf(records[k]) : k \in 1..Len(records)}
          /\ \A i, j \in 1..Len(result) :
                i < j => CompareCodeUnits(result[i], result[j]) < 0
    /\ call = "getUniqueAccounts" =>
          /\ Range(result) = {AccountOf(records[k]) : k \in 1..Len(records)}
          /\ \A i, j \in 1..Len(result) :
                i < j => CompareCodeUnits(result[i], result[j]) < 0

\* a blank province, seen first, is returned as '未知' after 'P'
C21_Witness ==
    /\ call = "getUniqueProvinces"
    /\ Len(records) = 2
    /\ records[1].province = EmptyStr
    /\ records[2].province = ProvinceP
    /\ result = <<ProvinceP, UNKNOWN>>

(* ------------------------------ the multi-group warning ----------------- *)

\* the class \d of a regular expression without the u or v flag
IsDigitChar(c) == c \in {"0", "1", "2", "3", "4", "5", "6", "7", "8", "9"}

\* the pattern without its anchors: /\d+/ matches a string holding a digit
MatchesDigitsUnanchored(s) == \E i \in 1..Len(s) : IsDigitChar(s[i])

\* /^\d+$/.test(s)
MatchesDigits(s) == Len(s) > 0 /\ \A i \in 1..Len(s) : IsDigitChar(s[i])

\* the forEach loop of hasMultipleNumericGroups
RECURSIVE AddNumericGroups(_, _)
AddNumericGroups(recs, set) ==
    IF recs = <<>> THEN set
    ELSE AddNumericGroups(Tail(recs),
            IF MatchesDigits(Head(recs).group) THEN SetAdd(set, Head(recs).group) ELSE set)

hasMultipleNumericGroups(recs) == Len(AddNumericGroups(recs, <<>>)) > 1

\* group values of the records the warning is computed for: numeric ones (one
\* with a leading zero), mixed ones, the empty string and the sentinel
WarningGroups ==
    { Group31, Group4, <<"0", "3", "1">>, <<"3", "a">>, <<"a", "3">>, <<" ", "3">>,
      EmptyStr, NOT_TRIGGERED }

IsWarningInput(recs) ==
    \E n \in 0..MaxLen : \E gs \in [1..n -> WarningGroups] :
        recs = [k \in 1..n |-> MakeRecord(<<AccountA, ProvinceP, gs[k]>>,
                                          <<1, 0, 1, 0, 1, 0, 1, 0>>)]

CallHasMultipleNumericGroups ==
    /\ Ready
    /\ call' = "hasMultipleNumericGroups"
    /\ arg' = NoArg
    /\ result' = hasMultipleNumericGroups(records)
    /\ UNCHANGED <<csvText, records>>
    /\ UNCHANGED appVars

InitWarning ==
    /\ csvText = <<>>
    /\ IsWarningInput(records)
    /\ call = "none"
    /\ arg = NoArg
    /\ result = <<>>
    /\ AppIdle

NextWarning == CallHasMultipleNumericGroups

SpecWarning == InitWarning /\ [][NextWarning]_vars

\* a string of one or more of the decimal digits 0 to 9
SolelyDigits(s) == s # EmptyStr /\ \A i \in 1..Len(s) : s[i] \in DecimalDigits

\* C22: hasMultipleNumericGroups(records) is true exactly when two records
\* carry different group values that both consist solely of decimal digits.
C22_MultipleNumericGroups ==
    call = "hasMultipleNumericGroups" =>
        (result <=> \E i, j \in 1..Len(records) :
                        /\ records[i].group # records[j].group
                        /\ SolelyDigits(records[i].group)
                        /\ SolelyDigits(records[j].group))

\* two different numeric groups give the warning
C22_Witness ==
    /\ call = "hasMultipleNumericGroups"
    /\ Len(records) = 2
    /\ records[1].group = Group31
    /\ records[2].group = Group4
    /\ result = TRUE

(* ------------------------------ the App: uploads ------------------------ *)

\* most files of one selection
MaxFiles == 2

\* most uploads started in one behaviour
MaxUploads == 2

\* the header line of the uploaded files
AppHeader == HeaderLine(<<"account", "group", "total_outbound_count", "black_outbound_count">>)

\* one record
TextOne == <<AppHeader, <<AccountA, Group31, <<"7">>, <<"3">>>>>>

\* two records: a blank account, a quote and a backslash in a label, the
\* sentinel group, a negative and a non-numeric counter
TextTwo ==
    <<AppHeader,
      <<EmptyStr, NOT_TRIGGERED, <<"1", "2">>, <<"-", "3">>>>,
      <<<<"A", Quote, "\\">>, Group4, <<"a", "b">>, <<"4">>>>>>

\* one record with a total of 310 digits
TextHuge == <<AppHeader, <<AccountA, Group31, [i \in 1..(MaxFiniteDigits + 1) |-> "9"], <<"3">>>>>>

\* a data line one field short: a parse error, no record
TextBroken == <<AppHeader, <<AccountA, Group31, <<"7">>, <<"3">>>>, <<AccountA>>>>

\* file names: the last element is the extension
CsvName(base) == <<base, ".csv">>

\* the files the user can choose from
AppFiles ==
    { [name |-> CsvName("b"), content |-> TextTwo],
      [name |-> CsvName("d"), content |-> TextBroken],
      [name |-> CsvName("h"), content |-> TextHuge],
      [name |-> <<"e", ".CSV">>, content |-> TextOne] }

\* a selection: up to MaxFiles different files in some order
IsSelection(files) ==
    /\ \E n \in 1..MaxFiles : files \in [1..n -> AppFiles]
    /\ \A i, j \in 1..Len(files) : files[i] = files[j] => i = j

\* f.name.endsWith('.csv')
EndsWithCsv(name) == name # <<>> /\ name[Len(name)] = ".csv"

\* file.name.replace(/\.csv$/i, '')
StripCsv(name) ==
    IF name # <<>> /\ name[Len(name)] \in {".csv", ".CSV"}
    THEN SubSeq(name, 1, Len(name) - 1)
    ELSE name

\* the FileUpload component is rendered: neither a report nor a batch is shown
UploadShown == mounted /\ data.isNull /\ batchData.isNull

\* the mode buttons of FileUpload
SelectMode ==
    /\ UploadShown
    /\ \E b \in BOOLEAN : isBatch' = b
    /\ alert' = "none"
    /\ UNCHANGED <<data, batchData, theme, localStorage, reportId, mounted, loading,
                   uploads, windows, now>>
    /\ UNCHANGED engineVars

\* processFiles up to the start of the file reads: the alerts are
\*   SingleModeOneFile '单文件模式下只能上传一个文件，…'
\*   SomeIgnored       '部分文件不是 CSV 格式，已被忽略'
\*   PleaseUploadCsv   '请上传 CSV 文件'
StartUpload ==
    /\ UploadShown
    /\ Len(uploads) < MaxUploads
    /\ \E files \in UNION {[1..n -> AppFiles] : n \in 1..MaxFiles} :
          /\ IsSelection(files)
          /\ LET validFiles == SelectSeq(files, LAMBDA f : EndsWithCsv(f.name))
             IN  IF ~isBatch /\ Len(files) > 1
                 THEN /\ alert' = "SingleModeOneFile"
                      /\ UNCHANGED <<loading, uploads>>
                 ELSE IF Len(validFiles) = 0
                 THEN /\ alert' = "PleaseUploadCsv"
                      /\ UNCHANGED <<loading, uploads>>
                 ELSE /\ alert' = IF Len(validFiles) # Len(files) THEN "SomeIgnored" ELSE "none"
                      /\ loading' = TRUE
                      /\ uploads' = Append(uploads, [files |-> validFiles, isBatch |-> isBatch,
                                                     status |-> "reading"])
    /\ UNCHANGED <<data, batchData, theme, localStorage, reportId, mounted, isBatch,
                   windows, now>>
    /\ UNCHANGED engineVars

\* the file served as /sample-data.csv, whatever it holds
SampleFiles == {[name |-> CsvName("sample-data"), content |-> c] : c \in {TextOne, TextBroken}}

\* loadSampleData up to the fetch; the button is disabled while loading or in
\* batch mode
StartSample ==
    /\ UploadShown
    /\ Len(uploads) < MaxUploads
    /\ ~loading
    /\ ~isBatch
    /\ loading' = TRUE
    /\ \E f \in SampleFiles :
          uploads' = Append(uploads, [files |-> <<f>>, isBatch |-> FALSE, status |-> "reading"])
    /\ alert' = "none"
    /\ UNCHANGED <<data, batchData, theme, localStorage, reportId, mounted, isBatch,
                   windows, now>>
    /\ UNCHANGED engineVars

\* the entry of one file of a batch
BatchEntry(file, fileRecords) ==
    [fileName |-> StripCsv(file.name),
     stats |-> calculateOverallStats(fileRecords),
     rawData |-> fileRecords]

RECURSIVE BatchResultsAbort(_, _)
BatchResultsAbort(files, results) ==
    IF files = <<>> THEN results
    ELSE LET fileRecords == parseCSVData(Head(files).content)
         IN  IF Len(fileRecords) > 0
             THEN BatchResultsAbort(Tail(files), Append(results, BatchEntry(Head(files), fileRecords)))
             ELSE results

\* the statistics of every entry taken over the records of the first entry
RECURSIVE BatchResultsShared(_, _)
BatchResultsShared(files, results) ==
    IF files = <<>> THEN results
    ELSE LET fileRecords == parseCSVData(Head(files).content)
         IN  BatchResultsShared(Tail(files),
                IF Len(fileRecords) > 0
                THEN Append(results,
                        [fileName |-> StripCsv(Head(files).name),
                         stats |-> calculateOverallStats(IF results = <<>> THEN fileRecords
                                                         ELSE results[1].rawData),
                         rawData |-> fileRecords])
                ELSE results)

\* the files.forEach loop of the batch mode
RECURSIVE BatchResults(_, _)
BatchResults(files, results) ==
    IF files = <<>> THEN results
    ELSE LET fileRecords == parseCSVData(Head(files).content)
         IN  BatchResults(Tail(files),
                IF Len(fileRecords) > 0
                THEN Append(results, BatchEntry(Head(files), fileRecords))
                ELSE results)

\* handleUpload without the setBatchData(null) / setData(null) of the other mode
handleUploadKeeping(files, batch, d, b) ==
    IF Len(files) = 0 THEN [data |-> d, batchData |-> b, alert |-> "none"]
    ELSE IF batch
    THEN LET results == BatchResults(files, <<>>)
         IN  IF Len(results) = 0
             THEN [data |-> d, batchData |-> b, alert |-> "NoValidCsvData"]
             ELSE [data |-> d, batchData |-> NonNull(results), alert |-> "none"]
    ELSE LET fileRecords == parseCSVData(files[1].content)
         IN  IF Len(fileRecords) = 0
             THEN [data |-> d, batchData |-> b, alert |-> "CannotParseCsv"]
             ELSE [data |-> NonNull(fileRecords), batchData |-> b, alert |-> "none"]

\* handleUpload with a failing upload clearing the view
handleUploadClearing(files, batch, d, b) ==
    IF Len(files) = 0 THEN [data |-> d, batchData |-> b, alert |-> "none"]
    ELSE IF batch
    THEN LET results == BatchResults(files, <<>>)
         IN  IF Len(results) = 0
             THEN [data |-> Null, batchData |-> Null, alert |-> "NoValidCsvData"]
             ELSE [data |-> Null, batchData |-> NonNull(results), alert |-> "none"]
    ELSE LET fileRecords == parseCSVData(files[1].content)
         IN  IF Len(fileRecords) = 0
             THEN [data |-> Null, batchData |-> Null, alert |-> "CannotParseCsv"]
             ELSE [data |-> NonNull(fileRecords), batchData |-> Null, alert |-> "none"]

\* handleUpload(files, batch) in the state (d, b): the state it leaves and the
\* alert it shows
\*   NoValidCsvData  '没有有效的 CSV 数据'
\*   CannotParseCsv  '无法解析CSV文件，请检查文件格式'
handleUpload(files, batch, d, b) ==
    IF Len(files) = 0 THEN [data |-> d, batchData |-> b, alert |-> "none"]
    ELSE IF batch
    THEN LET results == BatchResults(files, <<>>)
         IN  IF Len(results) = 0
             THEN [data |-> d, batchData |-> b, alert |-> "NoValidCsvData"]
             ELSE [data |-> Null, batchData |-> NonNull(results), alert |-> "none"]
    ELSE LET fileRecords == parseCSVData(files[1].content)
         IN  IF Len(fileRecords) = 0
             THEN [data |-> d, batchData |-> b, alert |-> "CannotParseCsv"]
             ELSE [data |-> NonNull(fileRecords), batchData |-> Null, alert |-> "none"]

\* the reads (or the fetch) of an upload are done: onUpload(results, isBatch)
\* with the mode the upload was started in, then setLoading(false)
CompleteUpload ==
    /\ \E i \in 1..Len(uploads) :
          /\ uploads[i].status = "reading"
          /\ uploads' = [uploads EXCEPT ![i].status = "done"]
          /\ LET after == handleUpload(uploads[i].files, uploads[i].isBatch, data, batchData)
             IN  /\ data' = after.data
                 /\ batchData' = after.batchData
                 /\ alert' = after.alert
    /\ loading' = FALSE
    /\ UNCHANGED <<theme, localStorage, reportId, mounted, isBatch, windows, now>>
    /\ UNCHANGED engineVars

\* a read (or the fetch) of an upload fails: the alert is
\*   ReadError '读取文件时出错' ('无法加载示例数据' for the sample)
ReadFails ==
    /\ \E i \in 1..Len(uploads) :
          /\ uploads[i].status = "reading"
          /\ uploads' = [uploads EXCEPT ![i].status = "failed"]
    /\ alert' = "ReadError"
    /\ loading' = FALSE
    /\ UNCHANGED <<data, batchData, theme, localStorage, reportId, mounted, isBatch,
                   windows, now>>
    /\ UNCHANGED engineVars

\* the back button of ReportView and BatchReportView
HandleBack ==
    /\ mounted
    /\ ~(data.isNull /\ batchData.isNull)
    /\ data' = Null
    /\ batchData' = Null
    /\ reportId' = Null
    /\ alert' = "none"
    /\ UNCHANGED <<theme, localStorage, mounted, isBatch, loading, uploads, windows, now>>
    /\ UNCHANGED engineVars

(* ------------------------------ the App: localStorage ------------------- *)

\* localStorage is the sequence of its [key, value] entries, entry i being
\* the one of localStorage.key(i - 1). Keys and values are strings; the words
\* 'reportData' and 'theme' are one element each.

StoreHas(store, key) == \E i \in 1..Len(store) : store[i].key = key

\* localStorage.getItem(key): Null when there is no such entry
GetItem(store, key) ==
    IF StoreHas(store, key)
    THEN NonNull(store[CHOOSE i \in 1..Len(store) : store[i].key = key].value)
    ELSE Null

\* localStorage.setItem(key, value): a new key is listed last
SetItem(store, key, value) ==
    IF StoreHas(store, key)
    THEN [i \in 1..Len(store) |->
            IF store[i].key = key THEN [key |-> key, value |-> value] ELSE store[i]]
    ELSE Append(store, [key |-> key, value |-> value])

\* removal of entry i: the entries after it move up by one
RemoveAt(store, i) == SubSeq(store, 1, i - 1) \o SubSeq(store, i + 1, Len(store))

\* s.split(sep) for a separator of one character
RECURSIVE Split(_, _)
Split(s, sep) ==
    IF \A i \in 1..Len(s) : s[i] # sep THEN <<s>>
    ELSE LET k == CHOOSE i \in 1..Len(s) : s[i] = sep /\ \A j \in 1..(i - 1) : s[j] # sep
         IN  <<SubSeq(s, 1, k - 1)>> \o Split(SubSeq(s, k + 1, Len(s)), sep)

\* 'reportData_'
ReportPrefix == <<"reportData", "_">>

\* key.startsWith('reportData_')
StartsWithReportPrefix(key) == Len(key) >= 2 /\ SubSeq(key, 1, 2) = ReportPrefix

\* 24 * 60 * 60 * 1000
ONE_DAY == 24 * 60 * 60 * 1000

\* the age test with >= in place of >: an entry exactly one day old is pruned
IsPrunedAtOneDay(key, t) ==
    /\ key # EmptyStr
    /\ StartsWithReportPrefix(key)
    /\ LET idPart == Split(key, "_")[2]
       IN  /\ idPart # EmptyStr
           /\ LET timestamp == ParseInt(StrOr(Split(idPart, "_")[1], <<"0">>))
              IN  /\ ~timestamp.nan
                  /\ timestamp.val # 0
                  /\ t - timestamp.val >= ONE_DAY

\* the test of the pruning loop on one key at time t
IsPruned(key, t) ==
    /\ key # EmptyStr
    /\ StartsWithReportPrefix(key)
    /\ LET idPart == Split(key, "_")[2]
       IN  /\ idPart # EmptyStr
           /\ LET timestamp == ParseInt(StrOr(Split(idPart, "_")[1], <<"0">>))
              IN  /\ ~timestamp.nan
                  /\ timestamp.val # 0
                  /\ t - timestamp.val > ONE_DAY

\* the pruning loop from index i on (i - 1 in the code): after a removal the
\* index still moves on by one
RECURSIVE PruneFrom(_, _, _)
PruneFrom(store, i, t) ==
    IF i > Len(store) THEN store
    ELSE IF IsPruned(store[i].key, t)
         THEN PruneFrom(RemoveAt(store, i), i + 1, t)
         ELSE PruneFrom(store, i + 1, t)

(* ------------------------------ JSON ------------------------------------ *)

\* the decimal digits of a natural number
RECURSIVE Digits(_)
Digits(n) ==
    LET d == <<"0", "1", "2", "3", "4", "5", "6", "7", "8", "9">>[(n % 10) + 1]
    IN  IF n < 10 THEN <<d>> ELSE Digits(n \div 10) \o <<d>>

\* String(n) of an integer
NumberToString(n) == IF n < 0 THEN <<"-">> \o Digits(-n) ELSE Digits(n)

\* the characters of a string written out without any escape
RawChars(s) == s

\* the characters of a JSON string: '"' and '\' are escaped with a '\'
RECURSIVE EscapedChars(_)
EscapedChars(s) ==
    IF s = <<>> THEN <<>>
    ELSE (IF Head(s) \in {Quote, "\\"} THEN <<"\\", Head(s)>> ELSE <<Head(s)>>)
         \o EscapedChars(Tail(s))

\* JSON.stringify of a string
StringifyString(s) == <<Quote>> \o EscapedChars(s) \o <<Quote>>

\* the properties of a record in the order of the object literal of parseCSVData
RecordProperties ==
    <<"dt", "account", "province", "group",
      "total_outbound_count", "black_outbound_count",
      "total_pickup_count", "black_pickup_count",
      "total_pay_count", "black_pay_count",
      "total_complain_count", "black_complain_count">>

\* the value null where a number is expected
JsonNull == 2147483646

NullLiteral == <<"n", "u", "l", "l">>

\* JSON.stringify of a number: a number that is not finite is written null
StringifyNumber(n) ==
    IF n \in {Infinity, -Infinity, JsonNull} THEN NullLiteral ELSE NumberToString(n)

\* "name":value of property k of a record
StringifyMember(record, k) ==
    LET name == RecordProperties[k]
    IN  <<Quote, name, Quote, ":">>
        \o (IF name \in CounterColumns
            THEN StringifyNumber(record[name])
            ELSE StringifyString(record[name]))

RECURSIVE StringifyMembers(_, _)
StringifyMembers(record, k) ==
    IF k > Len(RecordProperties) THEN <<>>
    ELSE (IF k > 1 THEN <<",">> ELSE <<>>)
         \o StringifyMember(record, k) \o StringifyMembers(record, k + 1)

\* JSON.stringify of one record
StringifyRecord(record) == <<"{">> \o StringifyMembers(record, 1) \o <<"}">>

RECURSIVE StringifyElements(_, _)
StringifyElements(recs, k) ==
    IF k > Len(recs) THEN <<>>
    ELSE (IF k > 1 THEN <<",">> ELSE <<>>)
         \o StringifyRecord(recs[k]) \o StringifyElements(recs, k + 1)

\* JSON.stringify(item.rawData)
JSONStringify(recs) == <<"[">> \o StringifyElements(recs, 1) \o <<"]">>

\* the outcome of parsing a prefix of a text: a SyntaxError, or the value read
\* and the text after it
SyntaxError == [ok |-> FALSE, value |-> <<>>, rest |-> <<>>]

Parsed(v, rest) == [ok |-> TRUE, value |-> v, rest |-> rest]

\* the characters of a JSON string after its opening quote; of the escapes,
\* \" \\ and \/ are read
RECURSIVE ParseChars(_, _)
ParseChars(s, acc) ==
    IF s = <<>> THEN SyntaxError
    ELSE IF Head(s) = Quote THEN Parsed(acc, Tail(s))
    ELSE IF Head(s) = "\\"
         THEN IF Len(s) >= 2 /\ s[2] \in {Quote, "\\", "/"}
              THEN ParseChars(SubSeq(s, 3, Len(s)), Append(acc, s[2]))
              ELSE SyntaxError
    ELSE ParseChars(Tail(s), Append(acc, Head(s)))

\* the digits at the head of s read as a number, continuing from acc
RECURSIVE ParseDigits(_, _)
ParseDigits(s, acc) ==
    IF s # <<>> /\ IsDigitChar(Head(s))
    THEN ParseDigits(Tail(s), 10 * acc + DigitValue(Head(s)))
    ELSE Parsed(acc, s)

\* a JSON integer: an optional '-', then '0' or digits without a leading zero
ParseNumber(s) ==
    LET negative == s # <<>> /\ Head(s) = "-"
        digits == IF negative THEN Tail(s) ELSE s
    IN  IF digits = <<>> \/ ~IsDigitChar(Head(digits)) THEN SyntaxError
        ELSE IF Head(digits) = "0" THEN Parsed(0, Tail(digits))
        ELSE LET r == ParseDigits(digits, 0)
             IN  Parsed(IF negative THEN -r.value ELSE r.value, r.rest)

\* the object of a member list: a name given twice keeps its last value
ObjectOf(members) ==
    [name \in {members[i].name : i \in 1..Len(members)} |->
        members[CHOOSE i \in 1..Len(members) :
                   /\ members[i].name = name
                   /\ \A j \in (i + 1)..Len(members) : members[j].name # name].value]

RECURSIVE ParseValue(_)
RECURSIVE ParseElements(_, _)
RECURSIVE ParseMembers(_, _)

\* the elements of an array after '[' or ','
ParseElements(s, acc) ==
    LET r == ParseValue(s)
    IN  IF ~r.ok \/ r.rest = <<>> THEN SyntaxError
        ELSE IF Head(r.rest) = "]" THEN Parsed(Append(acc, r.value), Tail(r.rest))
        ELSE IF Head(r.rest) = "," THEN ParseElements(Tail(r.rest), Append(acc, r.value))
        ELSE SyntaxError

\* the members of an object after '{' or ','; a property name is one element
ParseMembers(s, acc) ==
    IF s = <<>> \/ Head(s) # Quote THEN SyntaxError
    ELSE LET k == ParseChars(Tail(s), <<>>)
         IN  IF ~k.ok \/ Len(k.value) # 1 \/ k.rest = <<>> \/ Head(k.rest) # ":"
             THEN SyntaxError
             ELSE LET r == ParseValue(Tail(k.rest))
                      all == Append(acc, [name |-> k.value[1], value |-> r.value])
                  IN  IF ~r.ok \/ r.rest = <<>> THEN SyntaxError
                      ELSE IF Head(r.rest) = "}" THEN Parsed(ObjectOf(all), Tail(r.rest))
                      ELSE IF Head(r.rest) = "," THEN ParseMembers(Tail(r.rest), all)
                      ELSE SyntaxError

\* one JSON value at the head of s: an array, an object, a string, null, an
\* integer
ParseValue(s) ==
    IF s = <<>> THEN SyntaxError
    ELSE IF Head(s) = "["
         THEN IF Len(s) >= 2 /\ s[2] = "]" THEN Parsed(<<>>, SubSeq(s, 3, Len(s)))
              ELSE ParseElements(Tail(s), <<>>)
    ELSE IF Head(s) = "{"
         THEN IF Len(s) >= 2 /\ s[2] = "}" THEN Parsed(<<>>, SubSeq(s, 3, Len(s)))
              ELSE ParseMembers(Tail(s), <<>>)
    ELSE IF Head(s) = Quote THEN ParseChars(Tail(s), <<>>)
    ELSE IF Len(s) >= 4 /\ SubSeq(s, 1, 4) = NullLiteral
         THEN Parsed(JsonNull, SubSeq(s, 5, Len(s)))
    ELSE ParseNumber(s)

\* JSON.parse(text): the value, or a SyntaxError
JSONParse(text) ==
    LET r == ParseValue(text)
    IN  IF r.ok /\ r.rest = <<>> THEN r ELSE SyntaxError

(* ------------------------------ the App: mount, theme, detail windows --- *)

\* most detail windows opened in one behaviour
MaxWindows == 1

ThemeKey == <<"theme">>

\* getInitialTheme: the saved theme if there is one, 'dark' otherwise
getInitialTheme(store) ==
    LET savedTheme == GetItem(store, ThemeKey)
    IN  IF ~savedTheme.isNull /\ savedTheme.value # EmptyStr
        THEN savedTheme.value
        ELSE <<"dark">>

\* toggleTheme
ToggleTheme ==
    /\ mounted
    /\ LET newTheme == IF theme = <<"dark">> THEN <<"light">> ELSE <<"dark">>
       IN  /\ theme' = newTheme
           /\ localStorage' = SetItem(localStorage, ThemeKey, newTheme)
    /\ alert' = "none"
    /\ UNCHANGED <<data, batchData, reportId, mounted, isBatch, loading, uploads,
                   windows, now>>
    /\ UNCHANGED engineVars

\* the first half of the mount effect in a window with parameter reportId = rid
\* and state d: the data it leaves and the alert it shows
\*   LoadFailed '数据加载失败'
LoadReport(store, rid, d) ==
    IF rid.isNull \/ rid.value = EmptyStr THEN [data |-> d, alert |-> "none"]
    ELSE LET storedData == GetItem(store, ReportPrefix \o rid.value)
         IN  IF storedData.isNull \/ storedData.value = EmptyStr
             THEN [data |-> d, alert |-> "none"]
             ELSE LET parsedData == JSONParse(storedData.value)
                  IN  IF parsedData.ok
                      THEN [data |-> NonNull(parsedData.value), alert |-> "none"]
                      ELSE [data |-> d, alert |-> "LoadFailed"]

\* the mount effect: the report of the reportId parameter is loaded, then the
\* store is pruned
Mount ==
    /\ ~mounted
    /\ mounted' = TRUE
    /\ LET loaded == LoadReport(localStorage, reportId, data)
       IN  /\ data' = loaded.data
           /\ alert' = loaded.alert
    /\ localStorage' = PruneFrom(localStorage, 1, now)
    /\ UNCHANGED <<batchData, theme, reportId, isBatch, loading, uploads, windows, now>>
    /\ UNCHANGED engineVars

\* Math.random().toString(36).substr(2, 9): some characters, or none
RandomSuffixes == {<<"k">>, EmptyStr}

\* handleRowClick: the raw data of the row is stored under a new report id and
\* a window is opened with that id; the id is taken to be one not in use
RowClick ==
    /\ mounted
    /\ data.isNull
    /\ ~batchData.isNull
    /\ Len(windows) < MaxWindows
    /\ \E i \in 1..Len(batchData.value) : \E suffix \in RandomSuffixes :
          LET item == batchData.value[i]
              id == NumberToString(now) \o <<"_">> \o suffix
          IN  /\ ~StoreHas(localStorage, ReportPrefix \o id)
              /\ localStorage' = SetItem(localStorage, ReportPrefix \o id,
                                         JSONStringify(item.rawData))
              /\ windows' = Append(windows, [reportId |-> id, item |-> item,
                                             mounted |-> FALSE, data |-> Null])
    /\ alert' = "none"
    /\ UNCHANGED <<data, batchData, theme, reportId, mounted, isBatch, loading, uploads, now>>
    /\ UNCHANGED engineVars

\* handleRowClick when setItem throws (the quota is used up): the alert is
\*   StorageFailed '无法打开新窗口: 数据存储失败'
RowClickStorageFails ==
    /\ mounted
    /\ data.isNull
    /\ ~batchData.isNull
    /\ alert' = "StorageFailed"
    /\ UNCHANGED <<data, batchData, theme, localStorage, reportId, mounted, isBatch,
                   loading, uploads, windows, now>>
    /\ UNCHANGED engineVars

\* the mount effect of a detail window, on the localStorage it shares
DetailMount ==
    /\ \E w \in 1..Len(windows) :
          /\ ~windows[w].mounted
          /\ windows' = [windows EXCEPT
                ![w].mounted = TRUE,
                ![w].data = LoadReport(localStorage, NonNull(windows[w].reportId), Null).data]
    /\ localStorage' = PruneFrom(localStorage, 1, now)
    /\ UNCHANGED <<data, batchData, theme, reportId, mounted, isBatch, loading, uploads,
                   alert, now>>
    /\ UNCHANGED engineVars

(* ------------------------------ the App in one window ------------------- *)

\* the time of the session: one day and 13 600 seconds after the epoch
Now0 == ONE_DAY + 13600000

\* the id of a report stored an hour before by a batch view
EarlierId == NumberToString(Now0 - 3600000) \o <<"_", "e">>

EngineIdle ==
    /\ csvText = <<>>
    /\ records = <<>>
    /\ call = "none"
    /\ arg = NoArg
    /\ result = <<>>

\* the window is opened either plainly on an empty store, or by a batch view
\* that has stored a report for it
InitApp ==
    /\ EngineIdle
    /\ data = Null
    /\ batchData = Null
    /\ mounted = FALSE
    /\ isBatch = FALSE
    /\ loading = FALSE
    /\ uploads = <<>>
    /\ alert = "none"
    /\ windows = <<>>
    /\ now = Now0
    /\ \/ /\ reportId = Null
          /\ localStorage = <<>>
       \/ /\ reportId = NonNull(EarlierId)
          /\ localStorage = <<[key |-> ReportPrefix \o EarlierId,
                               value |-> JSONStringify(parseCSVData(TextTwo))]>>
    /\ theme = getInitialTheme(localStorage)

\* the steps of the window and of the detail windows it opens; the theme
\* button, which touches nothing of these but the 'theme' entry, is among the
\* steps of the App on a used store
NextApp ==
    \/ Mount
    \/ SelectMode
    \/ StartUpload
    \/ StartSample
    \/ CompleteUpload
    \/ ReadFails
    \/ HandleBack
    \/ RowClick
    \/ RowClickStorageFails
    \/ DetailMount

SpecApp == InitApp /\ [][NextApp]_vars

(* ------------------------------ the App on a used store ----------------- *)

\* the key that handleRowClick builds from a timestamp and a suffix
ReportKey(timestamp, suffix) == ReportPrefix \o NumberToString(timestamp) \o <<"_">> \o suffix

MaxStore == 3

\* what a store may hold when the window opens: reports stored long ago, one
\* stored a day and a millisecond ago, one stored exactly a day ago, one stored
\* just now, the saved theme and an entry of another program
StoreEntries ==
    { [key |-> ReportKey(5, <<"a">>), value |-> JSONStringify(parseCSVData(TextOne))],
      [key |-> ReportKey(7, EmptyStr), value |-> <<"[", "]">>],
      [key |-> ReportKey(Now0 - ONE_DAY - 1, <<"b">>), value |-> <<"[", "]">>],
      [key |-> ReportKey(Now0 - ONE_DAY, <<"c">>), value |-> <<"[", "{">>],
      [key |-> ReportKey(Now0, <<"k">>), value |-> <<"[", "]">>],
      [key |-> ThemeKey, value |-> <<"light">>],
      [key |-> <<"o", "t", "h", "e", "r", "_", "5", "_", "a">>, value |-> <<"v">>] }

IsStore(store) ==
    /\ Len(store) <= MaxStore
    /\ \A i \in 1..Len(store) : store[i] \in StoreEntries
    /\ \A i, j \in 1..Len(store) : i # j => store[i].key # store[j].key

InitSweep ==
    /\ EngineIdle
    /\ data = Null
    /\ batchData = Null
    /\ mounted = FALSE
    /\ isBatch = FALSE
    /\ loading = FALSE
    /\ uploads = <<>>
    /\ alert = "none"
    /\ windows = <<>>
    /\ now = Now0
    /\ \E n \in 0..MaxStore : \E store \in [1..n -> StoreEntries] :
          /\ IsStore(store)
          /\ localStorage = store
    /\ reportId \in {Null, NonNull(<<"5", "_", "a">>),
                     NonNull(NumberToString(Now0 - ONE_DAY) \o <<"_", "c">>)}
    /\ theme = getInitialTheme(localStorage)

NextSweep ==
    \/ Mount
    \/ ToggleTheme

SpecSweep == InitSweep /\ [][NextSweep]_vars

(* ------------------------------ properties of the uploads --------------- *)

\* the parse of the file yields at least one record
HasRecords(file) == Len(parseCSVData(file.content)) > 0

\* C23: when a batch upload is handled, the batch list that is installed has
\* exactly one entry per file whose parse yields a record, in upload order, a
\* failing file preventing no other; when every file fails the batch is
\* reported invalid and no batch list is installed.
C23_BatchDropping ==
    [][\A i \in 1..Len(uploads) :
          (uploads[i].status = "reading" /\ uploads'[i].status = "done" /\ uploads[i].isBatch) =>
              LET good == SelectSeq(uploads[i].files, HasRecords)
              IN  IF good = <<>>
                  THEN /\ alert' = "NoValidCsvData"
                       /\ batchData' = batchData
                  ELSE /\ ~batchData'.isNull
                       /\ Len(batchData'.value) = Len(good)
                       /\ \A k \in 1..Len(good) :
                             /\ batchData'.value[k].fileName = StripCsv(good[k].name)
                             /\ batchData'.value[k].rawData = parseCSVData(good[k].content)]_vars

\* a batch of a failing file followed by a good one has been handled: the list
\* holds the good one only
C23_Witness ==
    /\ Len(uploads) = 1
    /\ uploads[1].status = "done"
    /\ uploads[1].isBatch
    /\ Len(uploads[1].files) = 2
    /\ ~HasRecords(uploads[1].files[1])
    /\ HasRecords(uploads[1].files[2])
    /\ ~batchData.isNull
    /\ Len(batchData.value) = 1
    /\ batchData.value[1].fileName = StripCsv(uploads[1].files[2].name)

\* C24: every entry of the batch list carries the overall statistics of its
\* own raw data, and its raw data is the parse of its own file alone: files of
\* the same upload do not enter it.
C24_NoCrossFileAggregation ==
    ~batchData.isNull =>
        \A k \in 1..Len(batchData.value) :
            LET entry == batchData.value[k]
            IN  /\ entry.stats = calculateOverallStats(entry.rawData)
                /\ entry.stats.totalOutbound = SumOf(entry.rawData, "total_outbound_count")
                /\ entry.stats.blackOutbound = SumOf(entry.rawData, "black_outbound_count")
                /\ \E i \in 1..Len(uploads) : \E j \in 1..Len(uploads[i].files) :
                      /\ uploads[i].isBatch
                      /\ uploads[i].status = "done"
                      /\ entry.fileName = StripCsv(uploads[i].files[j].name)
                      /\ entry.rawData = parseCSVData(uploads[i].files[j].content)

\* a batch of two good files: two entries with different statistics
C24_Witness ==
    /\ ~batchData.isNull
    /\ Len(batchData.value) = 2
    /\ batchData.value[1].fileName # batchData.value[2].fileName
    /\ batchData.value[1].stats.totalOutbound > 0
    /\ batchData.value[2].stats.totalOutbound > 0
    /\ batchData.value[1].stats # batchData.value[2].stats

\* the upload cannot be shown: in single mode the parse of its file yields no
\* record, in batch mode no file of it has a record
UploadFails(upload) ==
    IF upload.isBatch
    THEN \A j \in 1..Len(upload.files) : ~HasRecords(upload.files[j])
    ELSE ~HasRecords(upload.files[1])

\* C25: when a failing upload is handled, an error is reported and data and
\* batchData keep the values they had.
C25_FailureKeepsView ==
    [][\A i \in 1..Len(uploads) :
          (uploads[i].status = "reading" /\ uploads'[i].status = "done" /\ UploadFails(uploads[i])) =>
              /\ alert' = (IF uploads[i].isBatch THEN "NoValidCsvData" ELSE "CannotParseCsv")
              /\ data' = data
              /\ batchData' = batchData]_vars

\* a failing single upload has just been handled while a report is shown
C25_Witness ==
    /\ alert = "CannotParseCsv"
    /\ ~data.isNull
    /\ batchData.isNull
    /\ \A i \in 1..Len(uploads) : uploads[i].status = "done"

\* a failing batch upload has just been handled while a batch is shown
C25_WitnessBatch ==
    /\ alert = "NoValidCsvData"
    /\ data.isNull
    /\ ~batchData.isNull

\* the upload can be shown
UploadSucceeds(upload) == ~UploadFails(upload)

\* C28: in every state of the App at most one of data and batchData is
\* non-null.
C28_OneViewAtMost == data.isNull \/ batchData.isNull

\* a good single upload has been handled after a good batch upload had
\* installed its list: the report is shown and the list is gone
C28_Witness ==
    /\ ~data.isNull
    /\ batchData.isNull
    /\ Len(uploads) = 2
    /\ \A i \in 1..2 : uploads[i].status = "done" /\ UploadSucceeds(uploads[i])
    /\ \E i \in 1..2 : uploads[i].isBatch
    /\ \E i \in 1..2 : ~uploads[i].isBatch

\* the view a good upload installs
Installed(upload) == handleUpload(upload.files, upload.isBatch, Null, Null)

\* C30: when the later of two good uploads to finish is handled, the view
\* installed is that of the upload started second, whichever finished first.
\* (uploads holds the uploads in the order they were started; the first one
\* being handled after the second means the second was started while the
\* reads of the first were pending.)
C30_LatestStartedWins ==
    [][\A i \in 1..Len(uploads) :
          ( /\ Len(uploads) = 2
            /\ uploads[i].status = "reading"
            /\ uploads'[i].status = "done"
            /\ uploads[3 - i].status = "done"
            /\ UploadSucceeds(uploads[1])
            /\ UploadSucceeds(uploads[2]) ) =>
              /\ data' = Installed(uploads[2]).data
              /\ batchData' = Installed(uploads[2]).batchData]_vars

(* ------------------------------ properties of the handoff --------------- *)

\* C27: the record sequence a detail window loads (stringified by the row
\* click, stored, read and parsed by the window opened with the report id) is
\* the raw data of the row, so the overall statistics computed in the detail
\* window are the statistics of the row.
C27_HandoffRoundTrip ==
    \A w \in 1..Len(windows) :
        windows[w].mounted =>
            /\ windows[w].data = NonNull(windows[w].item.rawData)
            /\ calculateOverallStats(windows[w].data.value) = windows[w].item.stats

\* every counter of the records is a finite number
AllFinite(recs) ==
    \A k \in 1..Len(recs) : \A c \in CounterColumns :
        recs[k][c] \notin {Infinity, -Infinity, JsonNull}

\* the round trip of the rows whose counters are all finite
C27_FiniteRoundTrip ==
    \A w \in 1..Len(windows) :
        (windows[w].mounted /\ AllFinite(windows[w].item.rawData)) =>
            /\ windows[w].data = NonNull(windows[w].item.rawData)
            /\ calculateOverallStats(windows[w].data.value) = windows[w].item.stats

\* a detail window has loaded the records of a row with a counter that is
\* Infinity: the counter has come back as null
C27_InfinityLost ==
    \E w \in 1..Len(windows) :
        /\ windows[w].mounted
        /\ windows[w].item.rawData[1].total_outbound_count = Infinity
        /\ ~windows[w].data.isNull
        /\ windows[w].data.value[1].total_outbound_count = JsonNull

\* a detail window has loaded records with a quote and a backslash in a
\* label, Han characters and a negative counter
C27_Witness ==
    \E w \in 1..Len(windows) :
        /\ windows[w].mounted
        /\ ~windows[w].data.isNull
        /\ Len(windows[w].data.value) = 2
        /\ windows[w].data.value[1].group = NOT_TRIGGERED
        /\ windows[w].data.value[1].black_outbound_count < 0
        /\ windows[w].data.value[2].account = <<"A", Quote, "\\">>

(* ------------------------------ properties of the sweep ----------------- *)

\* the key has the form reportData_<timestamp>_<suffix> and its timestamp is
\* more than 24 hours before t
IsExpiredReportKey(key, t) ==
    LET parts == Split(key, "_")
    IN  /\ Len(parts) >= 3
        /\ parts[1] = <<"reportData">>
        /\ SolelyDigits(parts[2])
        /\ t - DecimalMagnitude(parts[2]) > 24 * 60 * 60 * 1000

\* C26: once the cleanup pass of the mount effect has finished, the store
\* holds no entry with a key reportData_<timestamp>_<suffix> whose timestamp
\* is more than 24 hours before the pass, whatever the store held before.
C26_ExpiredSwept ==
    mounted => \A i \in 1..Len(localStorage) : ~IsExpiredReportKey(localStorage[i].key, now)

\* the key starts with reportData_
IsReportKey(key) == Len(key) >= 2 /\ key[1] = "reportData" /\ key[2] = "_"

\* a reportData_ key whose timestamp is at most 24 hours before t
IsYoungReportKey(key, t) ==
    LET parts == Split(key, "_")
    IN  /\ IsReportKey(key)
        /\ Len(parts) >= 3
        /\ SolelyDigits(parts[2])
        /\ t - DecimalMagnitude(parts[2]) <= 24 * 60 * 60 * 1000

\* C29: the sweep of the mount effect removes nothing but expired report
\* entries: every entry whose key does not start with reportData_ ('theme'
\* among them) and every report entry at most 24 hours old is still in the
\* store after it, and what the store holds after it are entries it held
\* before, value unchanged and in the same order.
C29_SweepKeepsOthers ==
    [][(~mounted /\ mounted') =>
          /\ \A i \in 1..Len(localStorage) :
                (~IsReportKey(localStorage[i].key) \/ IsYoungReportKey(localStorage[i].key, now)) =>
                    \E j \in 1..Len(localStorage') : localStorage'[j] = localStorage[i]
          /\ \A j \in 1..Len(localStorage') :
                \E i \in 1..Len(localStorage) : localStorage[i] = localStorage'[j]
          /\ \A j, k \in 1..Len(localStorage') :
                j < k => \E i, l \in 1..Len(localStorage) :
                            /\ i < l
                            /\ localStorage[i] = localStorage'[j]
                            /\ localStorage[l] = localStorage'[k]]_vars

\* the window has mounted on a store of an expired report (which it has
\* loaded), the saved theme and a report exactly 24 hours old: the first is
\* gone, the other two are there
C29_Witness ==
    /\ mounted
    /\ ~data.isNull
    /\ reportId = NonNull(<<"5", "_", "a">>)
    /\ Len(localStorage) = 2
    /\ ~StoreHas(localStorage, ReportKey(5, <<"a">>))
    /\ GetItem(localStorage, ThemeKey) = NonNull(<<"light">>)
    /\ GetItem(localStorage, ReportKey(Now0 - ONE_DAY, <<"c">>)) = NonNull(<<"[", "{">>)

====
